---- MODULE Spec2Model ----
(***************************************************************************)
(* A state-machine model of src/classes/CanvasRenderingContext2D.js, the   *)
(* recording mock of the 2D drawing context: the parallel attribute        *)
(* stacks, the transform array, the current path, and the event and        *)
(* draw-call logs.                                                         *)
(*                                                                         *)
(* JavaScript objects that the code shares by reference are kept in heaps: *)
(* `heap` holds the event objects (the logs and the path hold references   *)
(* to them), `matrices` holds the transform arrays (_transformStack holds  *)
(* references), `dashes` holds the line-dash arrays.                       *)
(***************************************************************************)
EXTENDS Integers, Sequences, FiniteSets, TLC

(***************************************************************************)
(* JavaScript values.  Every value is a record of one shape:               *)
(*   ty : typeof-like tag ("number", "string", "undefined", "boolean",     *)
(*        "object")                                                        *)
(*   k  : what Number(v) is: "fin" (finite), "nan", "inf"                  *)
(*   n  : the finite value of Number(v), or the sign of an infinity        *)
(*   s  : the text of a string, or the class of an object                  *)
(*   o  : the payload of an object (fields the context reads)              *)
(***************************************************************************)
Num(n) == [ty |-> "number", k |-> "fin", n |-> n, s |-> "", o |-> <<>>]
NaN == [ty |-> "number", k |-> "nan", n |-> 0, s |-> "", o |-> <<>>]
PosInf == [ty |-> "number", k |-> "inf", n |-> 1, s |-> "", o |-> <<>>]
NegInf == [ty |-> "number", k |-> "inf", n |-> -1, s |-> "", o |-> <<>>]
Undefined == [ty |-> "undefined", k |-> "nan", n |-> 0, s |-> "", o |-> <<>>]
Bool(b) == [ty |-> "boolean", k |-> "fin", n |-> IF b THEN 1 ELSE 0, s |-> "", o |-> <<>>]
\* a string whose text is not a numeric literal
Str(text) == [ty |-> "string", k |-> "nan", n |-> 0, s |-> text, o |-> <<>>]
\* a string whose text is the decimal literal of n
NumStr(text, n) == [ty |-> "string", k |-> "fin", n |-> n, s |-> text, o |-> <<>>]
\* an object of class cls
Obj(cls, payload) == [ty |-> "object", k |-> "nan", n |-> 0, s |-> cls, o |-> payload]

\* Number(v): the numeric cast
Number(v) == [ty |-> "number", k |-> v.k, n |-> v.n, s |-> "", o |-> <<>>]

\* Number.isFinite(v): false for every non-number, no coercion
NumberIsFinite(v) == v.ty = "number" /\ v.k = "fin"

\* x + y on two numbers
Add(x, y) ==
  IF x.k = "nan" \/ y.k = "nan" THEN NaN
  ELSE IF x.k = "inf" /\ y.k = "inf" THEN (IF x.n = y.n THEN x ELSE NaN)
  ELSE IF x.k = "inf" THEN x
  ELSE IF y.k = "inf" THEN y
  ELSE Num(x.n + y.n)

\* x * y on two numbers
Mul(x, y) ==
  IF x.k = "nan" \/ y.k = "nan" THEN NaN
  ELSE IF x.k = "inf" \/ y.k = "inf"
       THEN (IF x.n = 0 \/ y.n = 0 THEN NaN
             ELSE IF (x.n > 0) = (y.n > 0) THEN PosInf ELSE NegInf)
  ELSE Num(x.n * y.n)

\* x - y on two numbers
Sub(x, y) == Add(x, Mul(Num(-1), y))

\* the JavaScript binary + on raw values: string concatenation as soon as one
\* operand is a string (or an object, which converts to a string), numeric
\* addition of the casts otherwise
Plus(x, y) ==
  IF x.ty \in {"string", "object"} \/ y.ty \in {"string", "object"}
  THEN Str("concat")
  ELSE Add(Number(x), Number(y))

\* v < 0 on a number (false for NaN)
IsNegative(v) == v.k # "nan" /\ v.n < 0

\* v > 0 on a number (false for NaN)
IsPositive(v) == v.k # "nan" /\ v.n > 0

\* String(v)
String(v) ==
  CASE v.ty = "string" -> v.s
    [] v.ty = "undefined" -> "undefined"
    [] v.ty = "boolean" -> (IF v.n = 1 THEN "true" ELSE "false")
    [] v.ty = "object" -> "[object Object]"
    [] OTHER -> "number"

\* Boolean(v)
Boolean(v) ==
  CASE v.ty = "undefined" -> FALSE
    [] v.ty = "boolean" -> v.n = 1
    [] v.ty = "number" -> ~(v.k = "nan" \/ (v.k = "fin" /\ v.n = 0))
    [] v.ty = "string" -> v.s # ""
    [] OTHER -> TRUE

\* value instanceof cls
InstanceOf(v, cls) == v.ty = "object" /\ v.s = cls

\* arguments[i-1], undefined when the call passed fewer arguments
Arg(args, i) == IF i <= Len(args) THEN args[i] ELSE Undefined

RECURSIVE SumFrom(_, _)
\* the left-to-right sum a1 + a2 + ... of a non-empty sequence of numbers
SumFrom(xs, i) == IF i = 1 THEN xs[1] ELSE Add(SumFrom(xs, i - 1), xs[i])
Sum(xs) == SumFrom(xs, Len(xs))

RECURSIVE PlusFrom(_, _)
\* the left-to-right raw sum a1 + a2 + ... of a non-empty sequence of values
PlusFrom(xs, i) == IF i = 1 THEN xs[1] ELSE Plus(PlusFrom(xs, i - 1), xs[i])
RawSum(xs) == PlusFrom(xs, Len(xs))

Casts(xs) == [i \in DOMAIN xs |-> Number(xs[i])]

(***************************************************************************)
(* Bounds of the model.                                                    *)
(***************************************************************************)
MaxSetup == 2
MaxStackCalls == 3
MaxStyleCalls == 3
MaxSetterCalls == 2
MaxMatrixCalls == 2
MaxPathCalls == 3
MaxCallerCalls == 4
MaxRoundSetup == 3
MaxDashCalls == 4
MaxDefaultSetup == 2

(***************************************************************************)
(* State: the fields of one context object, and the caller's view of it.   *)
(***************************************************************************)
VARIABLES
  heap,          \* the event objects, by reference (1-based)
  matrices,      \* the transform arrays, by reference
  dashes,        \* the line-dash arrays, by reference
  _drawCalls,    \* references into heap
  _events,       \* references into heap
  _path,         \* references into heap
  stacks,        \* the per-attribute stacks, one field per stack of the class
  _stackIndex,
  lastCall,      \* the last public call: operation, arguments, how it ended
  calls,         \* the number of public calls made so far
  saved,         \* what the getters returned before each save() still open
  held,          \* the array a caller holds from __getEvents/__getDrawCalls/__getPath
  handle         \* the _path array of a Path2D handle the caller holds

ctx == <<heap, matrices, dashes, _drawCalls, _events, _path, stacks, _stackIndex>>

vars == <<ctx, lastCall, calls, saved, held, handle>>

Identity == <<Num(1), Num(0), Num(0), Num(1), Num(0), Num(0)>>

\* createCanvasEvent(type, transform, props): the event object
createCanvasEvent(type, transform, props) ==
  [type |-> type, transform |-> transform, props |-> props]

\* the empty props object {}
NoProps == [empty |-> TRUE]

\* array[key] of a JavaScript array: undefined when key is no index of it
Elem(array, key) ==
  IF key.ty = "number" /\ key.k = "fin" /\ (key.n + 1) \in DOMAIN array
  THEN array[key.n + 1]
  ELSE Undefined

\* array[i] for an integer i
At(array, i) == Elem(array, Num(i))

\* array[i] = v: replaces an element, or extends the array by one
WriteAt(array, i, v) ==
  IF (i + 1) \in DOMAIN array THEN [array EXCEPT ![i + 1] = v]
  ELSE IF i = Len(array) THEN Append(array, v)
  ELSE array

\* array.pop()
Pop(array) == IF array = <<>> THEN array ELSE SubSeq(array, 1, Len(array) - 1)

\* this.stackIndex: the class has no such field (its field is _stackIndex)
stackIndex == Undefined

\* a segment of a Path2D handle: an object made by the handle, not by this
\* context, so a reference that lies outside `heap` (as do all negative ones)
HandleSegment == -1

Init ==
  /\ heap = <<createCanvasEvent("beginPath", Identity, NoProps)>>
  /\ matrices = <<Identity>>
  /\ dashes = << <<>> >>
  /\ _drawCalls = <<>>
  /\ _events = <<>>
  /\ _path = <<1>>
  /\ stacks =
       [_directionStack |-> <<Str("inherit")>>,
        _fillStyleStack |-> <<Str("#000")>>,
        _filterStack |-> <<Str("none")>>,
        _fontStack |-> <<Str("10px sans-serif")>>,
        _globalAlphaStack |-> <<Num(1)>>,
        _globalCompositeOperationStack |-> <<Str("source-over")>>,
        _imageSmoothingEnabledStack |-> <<Bool(TRUE)>>,
        _imageSmoothingQualityStack |-> <<Str("low")>>,
        _lineCapStack |-> <<Str("butt")>>,
        _lineDashOffsetStack |-> <<Num(0)>>,
        _lineDashStack |-> <<1>>,
        _lineJoinStack |-> <<Str("miter")>>,
        _lineWidthStack |-> <<Num(1)>>,
        _miterLimitStack |-> <<Num(10)>>,
        _shadowBlurStack |-> <<Num(0)>>,
        _shadowColorStack |-> <<Str("rgba(0, 0, 0, 0)")>>,
        _shadowOffsetXStack |-> <<Num(0)>>,
        _shadowOffsetYStack |-> <<Num(0)>>,
        _strokeStyleStack |-> <<Str("#000")>>,
        _textAlignStack |-> <<Str("start")>>,
        _textBaselineStack |-> <<Str("alphabetic")>>,
        _transformStack |-> <<1>>]
  /\ _stackIndex = 0
  /\ lastCall = [op |-> "constructor", args |-> <<>>, result |-> "ok"]
  /\ calls = 0
  /\ saved = <<>>
  /\ held = <<>>
  /\ handle = <<HandleSegment>>

(***************************************************************************)
(* Reading the context.                                                    *)
(***************************************************************************)
\* array[i] of an array of references; 0 stands for undefined (no object)
RefAt(array, i) == IF (i + 1) \in DOMAIN array THEN array[i + 1] ELSE 0

\* the object a reference points to
Deref(objects, ref) == IF ref \in DOMAIN objects THEN objects[ref] ELSE Undefined

\* getTransformSlice(ctx): a copy of the current frame's transform array.
\* Without such an array (undefined.slice()) the call raises a TypeError.
CanSlice(st, i) == RefAt(st._transformStack, i) # 0
getTransformSlice(ms, st, i) == Deref(ms, RefAt(st._transformStack, i))

\* new DOMMatrix(array): a matrix handle with the array's six numbers
DOMMatrix(m) == Obj("DOMMatrix", m)

get_direction == At(stacks._directionStack, _stackIndex)
get_fillStyle == At(stacks._fillStyleStack, _stackIndex)
get_filter == At(stacks._filterStack, _stackIndex)
get_font == At(stacks._fontStack, _stackIndex)
get_globalAlpha == At(stacks._globalAlphaStack, _stackIndex)
get_globalCompositeOperation == At(stacks._globalCompositeOperationStack, _stackIndex)
get_imageSmoothingEnabled == At(stacks._imageSmoothingEnabledStack, _stackIndex)
get_imageSmoothingQuality == At(stacks._imageSmoothingQualityStack, _stackIndex)
get_lineCap == At(stacks._lineCapStack, _stackIndex)
get_lineDashOffset == At(stacks._lineDashOffsetStack, _stackIndex)
get_lineJoin == At(stacks._lineJoinStack, _stackIndex)
get_lineWidth == At(stacks._lineWidthStack, _stackIndex)
get_miterLimit == At(stacks._miterLimitStack, _stackIndex)
get_shadowBlur == At(stacks._shadowBlurStack, _stackIndex)
get_shadowColor == At(stacks._shadowColorStack, _stackIndex)
get_shadowOffsetX == At(stacks._shadowOffsetXStack, _stackIndex)
get_shadowOffsetY == At(stacks._shadowOffsetXStack, _stackIndex)
get_strokeStyle == At(stacks._strokeStyleStack, _stackIndex)
get_textAlign == At(stacks._textAlignStack, _stackIndex)
get_textBaseline == At(stacks._textBaselineStack, _stackIndex)
\* getLineDash(): the current frame's dash array itself (here: its contents)
getLineDash == Deref(dashes, RefAt(stacks._lineDashStack, _stackIndex))
\* getTransform(): a fresh DOMMatrix of the current transform array
getTransform == DOMMatrix(Deref(matrices, RefAt(stacks._transformStack, _stackIndex)))
\* get currentTransform: likewise
get_currentTransform == DOMMatrix(Deref(matrices, RefAt(stacks._transformStack, _stackIndex)))

\* __getEvents(), __getDrawCalls(), __getPath(): slice(), a new array holding
\* the same references
getEvents == _events
getDrawCalls == _drawCalls
getPath == _path

(***************************************************************************)
(* How a call ends, and how it records.                                    *)
(***************************************************************************)
\* the call ends: returns ("ok") or raises an exception of the class named
Ends(op, args, result) ==
  /\ lastCall' = [op |-> op, args |-> args, result |-> result]
  /\ calls' = calls + 1

\* the call returns
Return(op, args) == Ends(op, args, "ok")

\* the call returns having changed nothing
Ignore(op, args) ==
  /\ Return(op, args)
  /\ UNCHANGED <<ctx, saved, held, handle>>

\* the call raises an exception of class cls, having changed nothing before
Throw(op, args, cls) ==
  /\ Ends(op, args, cls)
  /\ UNCHANGED <<ctx, saved, held, handle>>

\* a variant that assigns a one-entry log where the code pushes
PushEventAssigning(type, transform, props) ==
  /\ heap' = Append(heap, createCanvasEvent(type, transform, props))
  /\ _events' = <<Len(heap) + 1>>

\* this._events.push(event) of a new event object
PushEvent(type, transform, props) ==
  /\ heap' = Append(heap, createCanvasEvent(type, transform, props))
  /\ _events' = Append(_events, Len(heap) + 1)

\* an operation that only logs an event
LogOnly(type, props) ==
  /\ PushEvent(type, getTransformSlice(matrices, stacks, _stackIndex), props)
  /\ UNCHANGED <<matrices, dashes, _drawCalls, _path, stacks, _stackIndex, saved, held, handle>>

\* an operation that appends its event to the path and the event log
LogPath(type, props) ==
  /\ PushEvent(type, getTransformSlice(matrices, stacks, _stackIndex), props)
  /\ _path' = Append(_path, Len(heap) + 1)
  /\ UNCHANGED <<matrices, dashes, _drawCalls, stacks, _stackIndex, saved, held, handle>>

\* an operation that appends its event to the event log and the draw calls
LogDraw(type, props) ==
  /\ PushEvent(type, getTransformSlice(matrices, stacks, _stackIndex), props)
  /\ _drawCalls' = Append(_drawCalls, Len(heap) + 1)
  /\ UNCHANGED <<matrices, dashes, _path, stacks, _stackIndex, saved, held, handle>>

(***************************************************************************)
(* save and restore.                                                       *)
(***************************************************************************)
\* what a caller can read through the attribute getters
Getters ==
  [direction |-> get_direction, fillStyle |-> get_fillStyle,
   filter |-> get_filter, font |-> get_font, globalAlpha |-> get_globalAlpha,
   globalCompositeOperation |-> get_globalCompositeOperation,
   imageSmoothingEnabled |-> get_imageSmoothingEnabled,
   imageSmoothingQuality |-> get_imageSmoothingQuality,
   lineCap |-> get_lineCap, lineDashOffset |-> get_lineDashOffset,
   lineDash |-> getLineDash, lineJoin |-> get_lineJoin,
   lineWidth |-> get_lineWidth, miterLimit |-> get_miterLimit,
   shadowBlur |-> get_shadowBlur, shadowColor |-> get_shadowColor,
   shadowOffsetX |-> get_shadowOffsetX, shadowOffsetY |-> get_shadowOffsetY,
   strokeStyle |-> get_strokeStyle, textAlign |-> get_textAlign,
   textBaseline |-> get_textBaseline, transform |-> getTransform]

\* the stacks after save()'s pushes
SavePushes(st, i) ==
  [_transformStack |-> Append(st._transformStack, RefAt(st._transformStack, i)),
   _directionStack |-> Append(st._directionStack, At(st._directionStack, i)),
   _fillStyleStack |-> Append(st._fillStyleStack, At(st._fillStyleStack, i)),
   _filterStack |-> Append(st._filterStack, At(st._filterStack, i)),
   _fontStack |-> Append(st._fontStack, At(st._fontStack, i)),
   _globalAlphaStack |-> Append(st._globalAlphaStack, At(st._globalAlphaStack, i)),
   _globalCompositeOperationStack |->
     Append(st._globalCompositeOperationStack, At(st._globalCompositeOperationStack, i)),
   _imageSmoothingEnabledStack |->
     Append(st._imageSmoothingEnabledStack, At(st._imageSmoothingEnabledStack, i)),
   _imageSmoothingQualityStack |->
     Append(st._imageSmoothingQualityStack, At(st._imageSmoothingQualityStack, i)),
   _lineCapStack |-> Append(st._lineCapStack, At(st._lineCapStack, i)),
   _lineDashStack |-> Append(st._lineDashStack, RefAt(st._lineDashStack, i)),
   _lineDashOffsetStack |-> Append(st._lineDashOffsetStack, At(st._lineDashOffsetStack, i)),
   _lineJoinStack |-> Append(st._lineJoinStack, At(st._lineJoinStack, i)),
   _lineWidthStack |-> Append(st._lineWidthStack, Elem(st._lineWidthStack, stackIndex)),
   _miterLimitStack |-> Append(st._miterLimitStack, At(st._miterLimitStack, i)),
   _shadowBlurStack |-> Append(st._shadowBlurStack, At(st._shadowBlurStack, i)),
   _shadowColorStack |-> Append(st._shadowColorStack, At(st._shadowColorStack, i)),
   _shadowOffsetXStack |-> Append(st._shadowOffsetXStack, At(st._shadowOffsetXStack, i)),
   _shadowOffsetYStack |-> Append(st._shadowOffsetYStack, At(st._shadowOffsetYStack, i)),
   _strokeStyleStack |-> Append(st._strokeStyleStack, At(st._strokeStyleStack, i)),
   _textAlignStack |-> Append(st._textAlignStack, At(st._textAlignStack, i)),
   _textBaselineStack |-> Append(st._textBaselineStack, At(st._textBaselineStack, i))]

\* a variant that pushes the frame and logs no event
saveUnlogged ==
  /\ stacks' = SavePushes(stacks, _stackIndex)
  /\ _stackIndex' = _stackIndex + 1
  /\ saved' = Append(saved, Getters)
  /\ Return("save", <<>>)
  /\ UNCHANGED <<heap, _events, matrices, dashes, _drawCalls, _path, held, handle>>

save ==
  /\ stacks' = SavePushes(stacks, _stackIndex)
  /\ _stackIndex' = _stackIndex + 1
  /\ PushEvent("save", getTransformSlice(matrices, stacks', _stackIndex'), NoProps)
  /\ saved' = Append(saved, Getters)
  /\ Return("save", <<>>)
  /\ UNCHANGED <<matrices, dashes, _drawCalls, _path, held, handle>>

\* restore()'s early return
\* a variant whose early return misses depth 0
RestoreIsNoopBelowZero(i) == i < 0

RestoreIsNoop(i) == i <= 0

\* a variant that leaves one stack unpopped
RestorePopsButLineDash(st) ==
  [f \in DOMAIN st |-> IF f = "_lineDashStack" THEN st[f] ELSE Pop(st[f])]

\* the stacks after restore()'s pops
RestorePops(st) == [f \in DOMAIN st |-> Pop(st[f])]

\* a variant that leaves the index where it was
RestoreIndexKept(i) == i

\* restore()'s new _stackIndex
RestoreIndex(i) == i - 1

restore ==
  IF RestoreIsNoop(_stackIndex)
  THEN Ignore("restore", <<>>)
  ELSE /\ stacks' = RestorePops(stacks)
       /\ _stackIndex' = RestoreIndex(_stackIndex)
       /\ saved' = Pop(saved)
       /\ IF CanSlice(stacks', _stackIndex')
          THEN /\ PushEvent("restore", getTransformSlice(matrices, stacks', _stackIndex'), NoProps)
               /\ Return("restore", <<>>)
          ELSE /\ UNCHANGED <<heap, _events>>
               /\ Ends("restore", <<>>, "TypeError")
       /\ UNCHANGED <<matrices, dashes, _drawCalls, _path, held, handle>>

(***************************************************************************)
(* Attribute setters.                                                      *)
(***************************************************************************)
\* value === text
Is(value, text) == value.ty = "string" /\ value.s = text

OneOf(value, texts) == \E t \in texts : Is(value, t)

\* this._<field>[this._stackIndex] = stored, then the event is pushed
SetAttr(type, field, stored, props, value) ==
  /\ stacks' = [stacks EXCEPT ![field] = WriteAt(@, _stackIndex, stored)]
  /\ PushEvent(type, getTransformSlice(matrices, stacks', _stackIndex), props)
  /\ Return(type, <<value>>)
  /\ UNCHANGED <<matrices, dashes, _drawCalls, _path, _stackIndex, saved, held, handle>>

\* parseCSSColor(value): the normalised colour, "" when parse-color finds none
parseCSSColor(value) ==
  CASE value.s = "red" -> "#f00"
    [] value.s = "#ff0000" -> "#f00"
    [] value.s = "#123456" -> "#123456"
    [] value.s = "rgba(0,0,0,0.5)" -> "rgba(0, 0, 0, 0.5)"
    [] OTHER -> ""

\* cssfontparser(value).toString(): "" when the parser returns nothing and
\* the call inside the try block throws
cssfontparser(value) ==
  IF value.ty = "string" /\ value.s \in {"12px serif", "bold 20px Arial"}
  THEN value.s
  ELSE ""

compositeOperations ==
  {"source-over", "source-in", "source-out", "source-atop", "destination-over",
   "destination-in", "destination-out", "destination-atop", "lighter", "copy",
   "xor", "multiply", "screen", "overlay", "darken", "lighten", "color-dodge",
   "color-burn", "hard-light", "soft-light", "difference", "exclusion", "hue",
   "saturation", "color", "luminosity"}

set_direction(value) ==
  IF OneOf(value, {"rtl", "ltr", "inherit"})
  THEN SetAttr("direction", "_directionStack", value, [value |-> value], value)
  ELSE Ignore("direction", <<value>>)

set_fillStyle(value) ==
  IF value.ty = "string"
  THEN IF parseCSSColor(value) # ""
       THEN SetAttr("fillStyle", "_fillStyleStack", Str(parseCSSColor(value)),
                    [value |-> Str(parseCSSColor(value))], value)
       ELSE Ignore("fillStyle", <<value>>)
  ELSE IF InstanceOf(value, "CanvasGradient") \/ InstanceOf(value, "CanvasPattern")
       THEN SetAttr("fillStyle", "_fillStyleStack", value, [value |-> value], value)
       ELSE Ignore("fillStyle", <<value>>)

set_filter(value) ==
  LET v1 == IF Is(value, "") THEN Str("none") ELSE value
      v2 == IF v1.ty = "string" THEN v1 ELSE Str("none")
  IN SetAttr("filter", "_filterStack", v2, [value |-> v2], value)

set_font(value) ==
  IF cssfontparser(value) # ""
  THEN SetAttr("font", "_fontStack", Str(cssfontparser(value)),
               [value |-> Str(cssfontparser(value))], value)
  ELSE Ignore("font", <<value>>)

set_globalAlpha(value) ==
  LET v == Number(value) IN
  IF ~NumberIsFinite(v) \/ v.n < 0 \/ v.n > 1
  THEN Ignore("globalAlpha", <<value>>)
  ELSE SetAttr("globalAlpha", "_globalAlphaStack", v, [value |-> v], value)

set_globalCompositeOperation(value) ==
  IF OneOf(value, compositeOperations)
  THEN SetAttr("globalCompositeOperation", "_globalCompositeOperationStack", value,
               [value |-> value], value)
  ELSE Ignore("globalCompositeOperation", <<value>>)

set_imageSmoothingEnabled(value) ==
  SetAttr("imageSmoothingEnabled", "_imageSmoothingEnabledStack", Bool(Boolean(value)),
          [value |-> Bool(Boolean(value))], value)

set_imageSmoothingQuality(value) ==
  IF OneOf(value, {"high", "medium", "low"})
  THEN SetAttr("imageSmoothingQuality", "_imageSmoothingQualityStack", value,
               [value |-> value], value)
  ELSE Ignore("imageSmoothingQuality", <<value>>)

set_lineCap(value) ==
  IF OneOf(value, {"butt", "round", "square"})
  THEN SetAttr("lineCap", "_lineCapStack", value, [value |-> value], value)
  ELSE Ignore("lineCap", <<value>>)

set_lineDashOffset(value) ==
  LET result == Number(value) IN
  IF NumberIsFinite(result)
  THEN SetAttr("lineDashOffset", "_lineDashOffsetStack", result, [value |-> value], value)
  ELSE Ignore("lineDashOffset", <<value>>)

set_lineJoin(value) ==
  IF OneOf(value, {"round", "bevel", "miter"})
  THEN SetAttr("lineJoin", "_lineJoinStack", value, [value |-> value], value)
  ELSE Ignore("lineJoin", <<value>>)

\* a variant that lets 0 through
set_lineWidthFromZero(value) ==
  LET result == Number(value) IN
  IF NumberIsFinite(result) /\ result.n >= 0
  THEN SetAttr("lineWidth", "_lineWidthStack", result, [value |-> result], value)
  ELSE Ignore("lineWidth", <<value>>)

set_lineWidth(value) ==
  LET result == Number(value) IN
  IF NumberIsFinite(result) /\ result.n > 0
  THEN SetAttr("lineWidth", "_lineWidthStack", result, [value |-> result], value)
  ELSE Ignore("lineWidth", <<value>>)

\* the event of a miterLimit assignment is created with type 'lineWidth'; the
\* call is recorded in lastCall under its own name
set_miterLimit(value) ==
  LET result == Number(value) IN
  IF NumberIsFinite(result) /\ result.n > 0
  THEN /\ stacks' = [stacks EXCEPT !._miterLimitStack = WriteAt(@, _stackIndex, result)]
       /\ PushEvent("lineWidth", getTransformSlice(matrices, stacks', _stackIndex),
                    [value |-> result])
       /\ Return("miterLimit", <<value>>)
       /\ UNCHANGED <<matrices, dashes, _drawCalls, _path, _stackIndex, saved, held, handle>>
  ELSE Ignore("miterLimit", <<value>>)

set_shadowBlur(value) ==
  LET result == Number(value) IN
  IF NumberIsFinite(result) /\ result.n > 0
  THEN SetAttr("shadowBlur", "_shadowBlurStack", result, [value |-> result], value)
  ELSE Ignore("shadowBlur", <<value>>)

set_shadowColor(value) ==
  IF value.ty = "string" /\ parseCSSColor(value) # ""
  THEN SetAttr("shadowColor", "_shadowColorStack", Str(parseCSSColor(value)),
               [value |-> Str(parseCSSColor(value))], value)
  ELSE Ignore("shadowColor", <<value>>)

set_shadowOffsetX(value) ==
  LET result == Number(value) IN
  IF NumberIsFinite(result)
  THEN SetAttr("shadowOffsetX", "_shadowOffsetXStack", result, [value |-> result], value)
  ELSE Ignore("shadowOffsetX", <<value>>)

\* a variant that writes the stack of shadowOffsetY
set_shadowOffsetYOwnStack(value) ==
  LET result == Number(value) IN
  IF NumberIsFinite(result)
  THEN SetAttr("shadowOffsetY", "_shadowOffsetYStack", result, [value |-> result], value)
  ELSE Ignore("shadowOffsetY", <<value>>)

\* writes _shadowOffsetXStack, as the source does
set_shadowOffsetY(value) ==
  LET result == Number(value) IN
  IF NumberIsFinite(result)
  THEN SetAttr("shadowOffsetY", "_shadowOffsetXStack", result, [value |-> result], value)
  ELSE Ignore("shadowOffsetY", <<value>>)

set_strokeStyle(value) ==
  IF value.ty = "string"
  THEN IF parseCSSColor(value) # ""
       THEN SetAttr("strokeStyle", "_strokeStyleStack", Str(parseCSSColor(value)),
                    [value |-> Str(parseCSSColor(value))], value)
       ELSE Ignore("strokeStyle", <<value>>)
  ELSE IF InstanceOf(value, "CanvasGradient") \/ InstanceOf(value, "CanvasPattern")
       THEN SetAttr("strokeStyle", "_strokeStyleStack", value, [value |-> value], value)
       ELSE Ignore("strokeStyle", <<value>>)

set_textAlign(value) ==
  IF OneOf(value, {"left", "right", "center", "start", "end"})
  THEN SetAttr("textAlign", "_textAlignStack", value, [value |-> value], value)
  ELSE Ignore("textAlign", <<value>>)

set_textBaseline(value) ==
  IF OneOf(value, {"top", "hanging", "middle", "alphabetic", "ideographic", "bottom"})
  THEN SetAttr("textBaseline", "_textBaselineStack", value, [value |-> value], value)
  ELSE Ignore("textBaseline", <<value>>)

\* lineDash instanceof Array, Int8Array, ...
IsSequence(lineDash) == InstanceOf(lineDash, "Array")

\* the loop of setLineDash: TRUE when every element casts to a finite number >= 0
DashValid(items) ==
  \A i \in DOMAIN items : NumberIsFinite(Number(items[i])) /\ Number(items[i]).n >= 0

\* a variant that stores the values as they are given
DashResultAsGiven(items) == Casts(items)

\* the array setLineDash stores: result, or result.concat(result) when odd
DashResult(items) ==
  LET result == Casts(items) IN
  IF Len(result) % 2 = 1 THEN result \o result ELSE result

setLineDash(lineDash) ==
  IF ~IsSequence(lineDash) THEN Throw("setLineDash", <<lineDash>>, "TypeError")
  ELSE IF ~DashValid(lineDash.o) THEN Ignore("setLineDash", <<lineDash>>)
  ELSE /\ dashes' = Append(dashes, DashResult(lineDash.o))
       /\ stacks' = [stacks EXCEPT !._lineDashStack = WriteAt(@, _stackIndex, Len(dashes) + 1)]
       /\ PushEvent("setLineDash", getTransformSlice(matrices, stacks', _stackIndex),
                    [value |-> DashResult(lineDash.o)])
       /\ Return("setLineDash", <<lineDash>>)
       /\ UNCHANGED <<matrices, _drawCalls, _path, _stackIndex, saved, held, handle>>

(***************************************************************************)
(* Transform operations.  All of them write the six slots of the array     *)
(* this._transformStack[this._stackIndex] in place.                        *)
(***************************************************************************)
\* the reference of the current frame's transform array, and the array
CurRef == RefAt(stacks._transformStack, _stackIndex)
Cur == Deref(matrices, CurRef)

\* a variant that takes the event's copy of the array before the writes
SetMatrixCopyingFirst(type, m, props, args) ==
  /\ matrices' = [matrices EXCEPT ![CurRef] = m]
  /\ PushEvent(type, getTransformSlice(matrices, stacks, _stackIndex), props)
  /\ Return(type, args)
  /\ UNCHANGED <<dashes, _drawCalls, _path, stacks, _stackIndex, saved, held, handle>>

\* a variant in which the logged events hold the transform array itself
SetMatrixSharing(type, m, props, args) ==
  /\ matrices' = [matrices EXCEPT ![CurRef] = m]
  /\ heap' = Append([r \in DOMAIN heap |-> [heap[r] EXCEPT !.transform = m]],
                    createCanvasEvent(type, m, props))
  /\ _events' = Append(_events, Len(heap) + 1)
  /\ Return(type, args)
  /\ UNCHANGED <<dashes, _drawCalls, _path, stacks, _stackIndex, saved, held, handle>>

\* the in-place writes of the current transform array, then the event
SetMatrix(type, m, props, args) ==
  /\ matrices' = [matrices EXCEPT ![CurRef] = m]
  /\ PushEvent(type, getTransformSlice(matrices', stacks, _stackIndex), props)
  /\ Return(type, args)
  /\ UNCHANGED <<dashes, _drawCalls, _path, stacks, _stackIndex, saved, held, handle>>

MatrixProps(m) == [a |-> m[1], b |-> m[2], c |-> m[3], d |-> m[4], e |-> m[5], f |-> m[6]]

\* Math.cos and Math.sin.  Angles are counted in quarter turns (the number n
\* stands for n * pi / 2) and the values are taken exact.
Cos(angle) == Num(CASE angle.n % 4 = 0 -> 1 [] angle.n % 4 = 2 -> -1 [] OTHER -> 0)
Sin(angle) == Num(CASE angle.n % 4 = 1 -> 1 [] angle.n % 4 = 3 -> -1 [] OTHER -> 0)

set_currentTransform(value) ==
  IF InstanceOf(value, "DOMMatrix")
  THEN SetMatrix("currentTransform", value.o, MatrixProps(value.o), <<value>>)
  ELSE Ignore("currentTransform", <<value>>)

resetTransform ==
  SetMatrix("resetTransform", Identity, MatrixProps(Identity), <<>>)

\* a variant that turns the other way
RotatedClockwise(m, angle) ==
  LET cos == Cos(angle)
      sin == Sin(angle)
  IN <<Sub(Mul(m[1], cos), Mul(m[3], sin)),
       Sub(Mul(m[2], cos), Mul(m[4], sin)),
       Add(Mul(m[3], cos), Mul(m[1], sin)),
       Add(Mul(m[4], cos), Mul(m[2], sin)),
       m[5], m[6]>>

\* the matrix rotate(angle) leaves
Rotated(m, angle) ==
  LET cos == Cos(angle)
      sin == Sin(angle)
  IN <<Add(Mul(m[1], cos), Mul(m[3], sin)),
       Add(Mul(m[2], cos), Mul(m[4], sin)),
       Sub(Mul(m[3], cos), Mul(m[1], sin)),
       Sub(Mul(m[4], cos), Mul(m[2], sin)),
       m[5], m[6]>>

rotate(args) ==
  IF Len(args) < 1 THEN Throw("rotate", args, "TypeError")
  ELSE LET angle == Number(args[1]) IN
       IF ~NumberIsFinite(angle) THEN Ignore("rotate", args)
       ELSE SetMatrix("rotate", Rotated(Cur, angle), [angle |-> angle], args)

\* the matrix scale(x, y) leaves
Scaled(m, x, y) == <<Mul(m[1], x), Mul(m[2], x), Mul(m[3], y), Mul(m[4], y), m[5], m[6]>>

scale(args) ==
  IF Len(args) < 2 THEN Throw("scale", args, "TypeError")
  ELSE LET xResult == Number(args[1])
           yResult == Number(args[2])
       IN IF NumberIsFinite(xResult) /\ NumberIsFinite(yResult)
          THEN SetMatrix("scale", Scaled(Cur, xResult, yResult),
                         [x |-> xResult, y |-> yResult], args)
          ELSE Ignore("scale", args)

\* the six numbers setTransform is to store, from its arguments
SetTransformValues(args) ==
  IF Len(args) = 0 THEN Identity
  ELSE IF Len(args) = 1 THEN Casts(args[1].o)
  ELSE Casts(SubSeq(args, 1, 6))

setTransform(args) ==
  IF Len(args) = 1 /\ ~InstanceOf(args[1], "DOMMatrix")
  THEN Throw("setTransform", args, "TypeError")
  ELSE IF Len(args) > 1 /\ Len(args) < 6
  THEN Throw("setTransform", args, "TypeError")
  ELSE LET m == SetTransformValues(args) IN
       IF ~NumberIsFinite(Sum(m)) THEN Ignore("setTransform", args)
       ELSE SetMatrix("setTransform", m, MatrixProps(m), args)

\* a variant that composes the given matrix with the current one
TransformedGivenFirst(s, g) ==
  <<Add(Mul(g[1], s[1]), Mul(g[3], s[2])),
    Add(Mul(g[2], s[1]), Mul(g[4], s[2])),
    Add(Mul(g[1], s[3]), Mul(g[3], s[4])),
    Add(Mul(g[2], s[3]), Mul(g[4], s[4])),
    Add(Add(Mul(g[1], s[5]), Mul(g[3], s[6])), g[5]),
    Add(Add(Mul(g[2], s[5]), Mul(g[4], s[6])), g[6])>>

\* the matrix transform(a, b, c, d, e, f) leaves
Transformed(s, g) ==
  <<Add(Mul(s[1], g[1]), Mul(s[3], g[2])),
    Add(Mul(s[2], g[1]), Mul(s[4], g[2])),
    Add(Mul(s[1], g[3]), Mul(s[3], g[4])),
    Add(Mul(s[2], g[3]), Mul(s[4], g[4])),
    Add(Add(Mul(s[1], g[5]), Mul(s[3], g[6])), s[5]),
    Add(Add(Mul(s[2], g[5]), Mul(s[4], g[6])), s[6])>>

transform(args) ==
  IF Len(args) < 6 THEN Throw("transform", args, "TypeError")
  ELSE LET g == Casts(SubSeq(args, 1, 6)) IN
       IF ~NumberIsFinite(Sum(g)) THEN Ignore("transform", args)
       ELSE SetMatrix("transform", Transformed(Cur, g), MatrixProps(g), args)

\* a variant that adds the offsets as they are given
TranslatedUnmapped(m, x, y) == <<m[1], m[2], m[3], m[4], Add(m[5], x), Add(m[6], y)>>

\* the matrix translate(x, y) leaves
Translated(m, x, y) ==
  <<m[1], m[2], m[3], m[4],
    Add(m[5], Add(Mul(m[1], x), Mul(m[3], y))),
    Add(m[6], Add(Mul(m[2], x), Mul(m[4], y)))>>

translate(args) ==
  IF Len(args) < 2 THEN Throw("translate", args, "TypeError")
  ELSE LET xResult == Number(args[1])
           yResult == Number(args[2])
       IN IF NumberIsFinite(Add(xResult, yResult))
          THEN SetMatrix("translate", Translated(Cur, xResult, yResult),
                         [x |-> xResult, y |-> yResult], args)
          ELSE Ignore("translate", args)

(***************************************************************************)
(* The current path.                                                       *)
(***************************************************************************)
\* a variant that records the arc before it tests the radius
arcRecordingFirst(args) ==
  IF Len(args) < 5 THEN Throw("arc", args, "TypeError")
  ELSE LET r == Casts(SubSeq(args, 1, 5)) IN
       IF ~NumberIsFinite(Sum(r)) THEN Ignore("arc", args)
       ELSE /\ LogPath("arc", [x |-> r[1], y |-> r[2], radius |-> r[3],
                               startAngle |-> r[4], endAngle |-> r[5],
                               anticlockwise |-> Bool(FALSE)])
            /\ Ends("arc", args, IF IsNegative(Number(args[3])) THEN "DOMException" ELSE "ok")

arc(args) ==
  IF Len(args) < 5 THEN Throw("arc", args, "TypeError")
  ELSE LET r == Casts(SubSeq(args, 1, 5)) IN
       IF ~NumberIsFinite(Sum(r)) THEN Ignore("arc", args)
       ELSE IF IsNegative(Number(args[3])) THEN Throw("arc", args, "DOMException")
       ELSE /\ LogPath("arc", [x |-> r[1], y |-> r[2], radius |-> r[3],
                               startAngle |-> r[4], endAngle |-> r[5],
                               anticlockwise |->
                                 Bool(IF Len(args) < 6 \/ args[6] = Undefined
                                      THEN FALSE ELSE Boolean(args[6]))])
            /\ Return("arc", args)

arcTo(args) ==
  IF Len(args) < 5 THEN Throw("arcTo", args, "DOMException")
  ELSE LET r == Casts(SubSeq(args, 1, 5)) IN
       IF ~NumberIsFinite(Add(Add(Add(Add(r[1], r[3]), r[2]), r[4]), r[5]))
       THEN Ignore("arcTo", args)
       ELSE IF IsNegative(r[5]) THEN Throw("arcTo", args, "TypeError")
       ELSE /\ LogPath("arcTo", [cpx1 |-> r[1], cpy1 |-> r[2], cpx2 |-> r[3],
                                 cpy2 |-> r[4], radius |-> r[5]])
            /\ Return("arcTo", args)

\* a variant that appends the segment to the path it has
beginPathAppending ==
  /\ LogPath("beginPath", NoProps)
  /\ Return("beginPath", <<>>)

beginPath ==
  /\ PushEvent("beginPath", getTransformSlice(matrices, stacks, _stackIndex), NoProps)
  /\ _path' = <<Len(heap) + 1>>
  /\ Return("beginPath", <<>>)
  /\ UNCHANGED <<matrices, dashes, _drawCalls, stacks, _stackIndex, saved, held, handle>>

\* the event carries the arguments as passed, not their casts
bezierCurveTo(args) ==
  IF Len(args) < 6 THEN Throw("bezierCurveTo", args, "TypeError")
  ELSE IF ~NumberIsFinite(Sum(Casts(SubSeq(args, 1, 6)))) THEN Ignore("bezierCurveTo", args)
  ELSE /\ LogPath("bezierCurveTo", [cpx1 |-> args[1], cpy1 |-> args[2], cpx2 |-> args[3],
                                    cpy2 |-> args[4], x |-> args[5], y |-> args[6]])
       /\ Return("bezierCurveTo", args)

\* fill and clip: the fill rule their arguments select, after String()
FillRuleOf(args) ==
  IF Len(args) = 0 THEN "nonzero"
  ELSE IF InstanceOf(args[1], "Path2D")
       THEN (IF Len(args) = 1 THEN "nonzero" ELSE String(args[2]))
       ELSE String(args[1])

\* a variant that takes the live path whatever the arguments
PathOfLive(args) == _path

\* path._path.slice() of a Path2D handle, this._path.slice() otherwise
PathOf(args) ==
  IF Len(args) > 0 /\ InstanceOf(args[1], "Path2D") THEN args[1].o ELSE _path

clip(args) ==
  IF FillRuleOf(args) \notin {"nonzero", "evenodd"} THEN Throw("clip", args, "TypeError")
  ELSE /\ LogPath("clip", [path |-> PathOf(args), fillRule |-> FillRuleOf(args)])
       /\ Return("clip", args)

\* a variant that logs the event and adds no segment
closePathEventOnly ==
  /\ LogOnly("closePath", NoProps)
  /\ Return("closePath", <<>>)

closePath ==
  /\ LogPath("closePath", NoProps)
  /\ Return("closePath", <<>>)

ellipse(args) ==
  IF Len(args) < 7 THEN Throw("ellipse", args, "TypeError")
  ELSE LET r == Casts(SubSeq(args, 1, 7)) IN
       IF ~NumberIsFinite(Sum(r)) THEN Ignore("ellipse", args)
       ELSE IF IsNegative(r[3]) \/ IsNegative(r[4]) THEN Throw("ellipse", args, "DOMException")
       ELSE /\ LogPath("ellipse", [x |-> r[1], y |-> r[2], radiusX |-> r[3],
                                   radiusY |-> r[4], rotation |-> r[5],
                                   startAngle |-> r[6], endAngle |-> r[7],
                                   anticlockwise |->
                                     Bool(IF Len(args) < 8 \/ args[8] = Undefined
                                          THEN FALSE ELSE Boolean(args[8]))])
            /\ Return("ellipse", args)

\* a variant that tests the finiteness of x alone
lineToTestingX(args) ==
  IF Len(args) < 2 THEN Throw("lineTo", args, "TypeError")
  ELSE LET xResult == Number(args[1])
           yResult == Number(args[2])
       IN IF ~NumberIsFinite(xResult) THEN Ignore("lineTo", args)
          ELSE /\ LogPath("lineTo", [x |-> xResult, y |-> yResult])
               /\ Return("lineTo", args)

lineTo(args) ==
  IF Len(args) < 2 THEN Throw("lineTo", args, "TypeError")
  ELSE LET xResult == Number(args[1])
           yResult == Number(args[2])
       IN IF ~NumberIsFinite(Add(xResult, yResult)) THEN Ignore("lineTo", args)
          ELSE /\ LogPath("lineTo", [x |-> xResult, y |-> yResult])
               /\ Return("lineTo", args)

\* the finiteness test is made on x + y of the arguments as passed
moveTo(args) ==
  IF Len(args) < 2 THEN Throw("moveTo", args, "TypeError")
  ELSE IF ~NumberIsFinite(Plus(args[1], args[2])) THEN Ignore("moveTo", args)
  ELSE /\ LogPath("moveTo", [x |-> Number(args[1]), y |-> Number(args[2])])
       /\ Return("moveTo", args)

\* a variant that adds the curve to the path
quadraticCurveToOnPath(args) ==
  IF Len(args) < 4 THEN Throw("quadraticCurveTo", args, "TypeError")
  ELSE LET r == Casts(SubSeq(args, 1, 4)) IN
       IF ~NumberIsFinite(Sum(r)) THEN Ignore("quadraticCurveTo", args)
       ELSE /\ LogPath("quadraticCurveTo", [cpx |-> r[1], cpy |-> r[2], x |-> r[3], y |-> r[4]])
            /\ Return("quadraticCurveTo", args)

\* logs an event and leaves the path alone
quadraticCurveTo(args) ==
  IF Len(args) < 4 THEN Throw("quadraticCurveTo", args, "TypeError")
  ELSE LET r == Casts(SubSeq(args, 1, 4)) IN
       IF ~NumberIsFinite(Sum(r)) THEN Ignore("quadraticCurveTo", args)
       ELSE /\ LogOnly("quadraticCurveTo", [cpx |-> r[1], cpy |-> r[2], x |-> r[3], y |-> r[4]])
            /\ Return("quadraticCurveTo", args)

RectProps(r) == [x |-> r[1], y |-> r[2], width |-> r[3], height |-> r[4]]

\* a variant that logs the event and adds no segment
rectEventOnly(args) ==
  /\ LogOnly("rect", RectProps(Casts(SubSeq(args, 1, 4))))
  /\ Return("rect", args)

\* the finiteness test is made on the arguments as passed
rect(args) ==
  IF Len(args) < 4 THEN Throw("rect", args, "TypeError")
  ELSE IF ~NumberIsFinite(RawSum(SubSeq(args, 1, 4))) THEN Ignore("rect", args)
  ELSE /\ LogPath("rect", RectProps(Casts(SubSeq(args, 1, 4))))
       /\ Return("rect", args)

(***************************************************************************)
(* Drawing operations: each appends its event to both logs.                *)
(***************************************************************************)
Null == [ty |-> "null", k |-> "fin", n |-> 0, s |-> "", o |-> <<>>]

\* the finiteness test is made on the arguments as passed
clearRect(args) ==
  IF Len(args) < 4 THEN Throw("clearRect", args, "TypeError")
  ELSE IF ~NumberIsFinite(RawSum(SubSeq(args, 1, 4))) THEN Ignore("clearRect", args)
  ELSE /\ LogDraw("clearRect", RectProps(Casts(SubSeq(args, 1, 4))))
       /\ Return("clearRect", args)

\* the finiteness test is made on the arguments as passed
fillRect(args) ==
  IF Len(args) < 4 THEN Throw("fillRect", args, "TypeError")
  ELSE IF ~NumberIsFinite(RawSum(SubSeq(args, 1, 4))) THEN Ignore("fillRect", args)
  ELSE /\ LogDraw("fillRect", RectProps(Casts(SubSeq(args, 1, 4))))
       /\ Return("fillRect", args)

strokeRect(args) ==
  IF Len(args) < 4 THEN Throw("strokeRect", args, "TypeError")
  ELSE IF ~NumberIsFinite(Sum(Casts(SubSeq(args, 1, 4)))) THEN Ignore("strokeRect", args)
  ELSE /\ LogDraw("strokeRect", RectProps(Casts(SubSeq(args, 1, 4))))
       /\ Return("strokeRect", args)

\* the image classes drawImage and createPattern accept
ImageClasses == {"HTMLImageElement", "ImageBitmap", "HTMLVideoElement", "HTMLCanvasElement"}

\* img.width, img.height, img._closed of an image object
Width(img) == Arg(img.o, 1)
Height(img) == Arg(img.o, 2)
Closed(img) == InstanceOf(img, "ImageBitmap") /\ Boolean(Arg(img.o, 3))

\* the props of a drawImage event, by the number of arguments
DrawImageProps(args) ==
  LET img == args[1]
      r == [i \in 1..8 |-> Number(Arg(args, i + 1))]
  IN IF Len(args) = 3
     THEN [img |-> img, sx |-> Num(0), sy |-> Num(0),
           sWidth |-> Width(img), sHeight |-> Height(img),
           dx |-> r[1], dy |-> r[2], dWidth |-> Width(img), dHeight |-> Height(img)]
     ELSE IF Len(args) = 5
     THEN [img |-> img, sx |-> Num(0), sy |-> Num(0),
           sWidth |-> Width(img), sHeight |-> Height(img),
           dx |-> r[1], dy |-> r[2], dWidth |-> Width(img), dHeight |-> Height(img)]
     ELSE [img |-> img, sx |-> r[1], sy |-> r[2], sWidth |-> r[3], sHeight |-> r[4],
           dx |-> r[5], dy |-> r[6], dWidth |-> r[7], dHeight |-> r[8]]

\* drawImage's finiteness test, by the number of arguments
DrawImageFinite(args) ==
  LET r == [i \in 1..8 |-> Number(Arg(args, i + 1))] IN
  IF Len(args) = 3 THEN NumberIsFinite(Add(r[1], r[2]))
  ELSE IF Len(args) = 5 THEN NumberIsFinite(Sum(SubSeq(r, 1, 4)))
  ELSE NumberIsFinite(RawSum([i \in 1..8 |-> Arg(args, i + 1)]))

drawImage(args) ==
  IF Len(args) < 3 THEN Throw("drawImage", args, "TypeError")
  ELSE IF Len(args) = 4 \/ (Len(args) > 5 /\ Len(args) < 9)
  THEN Throw("drawImage", args, "TypeError")
  ELSE IF Closed(args[1]) THEN Throw("drawImage", args, "DOMException")
  ELSE IF ~(\E c \in ImageClasses : InstanceOf(args[1], c))
  THEN Throw("drawImage", args, "TypeError")
  ELSE IF ~DrawImageFinite(args) THEN Ignore("drawImage", args)
  ELSE /\ LogDraw("drawImage", DrawImageProps(args))
       /\ Return("drawImage", args)

fill(args) ==
  IF FillRuleOf(args) \notin {"nonzero", "evenodd"} THEN Throw("fill", args, "TypeError")
  ELSE /\ LogDraw("fill", [path |-> PathOf(args), fillRule |-> FillRuleOf(args)])
       /\ Return("fill", args)

\* fillText and strokeText
TextFinite(args) ==
  LET xResult == Number(args[2])
      yResult == Number(args[3])
      maxWidthResult == Number(Arg(args, 4))
  IN IF Len(args) = 3 THEN NumberIsFinite(Add(xResult, yResult))
     ELSE NumberIsFinite(Add(Add(xResult, yResult), maxWidthResult))

TextProps(args) ==
  [text |-> String(args[1]), x |-> Number(args[2]), y |-> Number(args[3]),
   maxWidth |-> IF Len(args) = 3 THEN Null ELSE Number(args[4])]

fillText(args) ==
  IF Len(args) < 3 THEN Throw("fillText", args, "TypeError")
  ELSE IF ~TextFinite(args) THEN Ignore("fillText", args)
  ELSE /\ LogDraw("fillText", TextProps(args))
       /\ Return("fillText", args)

strokeText(args) ==
  IF Len(args) < 3 THEN Throw("strokeText", args, "TypeError")
  ELSE IF ~TextFinite(args) THEN Ignore("strokeText", args)
  ELSE /\ LogDraw("strokeText", TextProps(args))
       /\ Return("strokeText", args)

\* a variant that logs the event and no draw call
strokeEventOnly(args) ==
  IF Len(args) > 0 /\ ~InstanceOf(args[1], "Path2D") THEN Throw("stroke", args, "TypeError")
  ELSE /\ LogOnly("stroke", [path |-> PathOf(args)])
       /\ Return("stroke", args)

stroke(args) ==
  IF Len(args) > 0 /\ ~InstanceOf(args[1], "Path2D") THEN Throw("stroke", args, "TypeError")
  ELSE /\ LogDraw("stroke", [path |-> PathOf(args)])
       /\ Return("stroke", args)

(***************************************************************************)
(* Operations that only log.                                               *)
(***************************************************************************)
\* options is an object with the fields path, fillRule, id (the rest unset)
addHitRegion(args) ==
  LET options == IF Len(args) = 0 \/ args[1] = Undefined THEN Obj("Object", <<>>) ELSE args[1]
      path == Arg(options.o, 1)
      fillRule == Arg(options.o, 2)
      id == Arg(options.o, 3)
  IN IF ~Boolean(path) /\ ~Boolean(id) THEN Throw("addHitRegion", args, "DOMException")
     ELSE IF Boolean(fillRule) /\ ~OneOf(fillRule, {"evenodd", "nonzero"})
     THEN Throw("addHitRegion", args, "TypeError")
     ELSE /\ LogOnly("addHitRegion", [path |-> path, fillRule |-> fillRule, id |-> id,
                                      parentID |-> Undefined, cursor |-> Undefined,
                                      control |-> Undefined, label |-> Undefined,
                                      role |-> Undefined])
          /\ Return("addHitRegion", args)

clearHitRegions ==
  /\ LogOnly("clearHitRegions", NoProps)
  /\ Return("clearHitRegions", <<>>)

createImageData(args) ==
  IF Len(args) < 1 THEN Throw("createImageData", args, "TypeError")
  ELSE IF Len(args) = 1
  THEN IF ~InstanceOf(args[1], "ImageData") THEN Throw("createImageData", args, "TypeError")
       ELSE /\ LogOnly("createImageData", [width |-> Width(args[1]), height |-> Height(args[1])])
            /\ Return("createImageData", args)
  ELSE LET width == Number(args[1])
           height == Number(args[2])
           abs(v) == IF v.k = "nan" THEN v ELSE [v EXCEPT !.n = IF v.n < 0 THEN -v.n ELSE v.n]
       IN IF ~NumberIsFinite(width) \/ width.n = 0 \/ ~NumberIsFinite(height) \/ height.n = 0
          THEN Throw("createImageData", args, "TypeError")
          ELSE /\ LogOnly("createImageData", [width |-> abs(width), height |-> abs(height)])
               /\ Return("createImageData", args)

createLinearGradient(args) ==
  IF Len(args) < 4 THEN Throw("createLinearGradient", args, "TypeError")
  ELSE LET r == Casts(SubSeq(args, 1, 4)) IN
       IF ~NumberIsFinite(Sum(r)) THEN Throw("createLinearGradient", args, "TypeError")
       ELSE /\ LogOnly("createLinearGradient",
                       [x0 |-> r[1], y0 |-> r[2], x1 |-> r[3], y1 |-> r[4]])
            /\ Return("createLinearGradient", args)

createPattern(args) ==
  LET image == Arg(args, 1)
      given == Arg(args, 2)
      type == IF given = Null \/ Is(given, "") THEN Str("repeat") ELSE given
  IN IF Len(args) = 1 THEN Throw("createPattern", args, "TypeError")
     ELSE IF ~OneOf(type, {"repeat", "repeat-x", "repeat-y", "no-repeat"})
     THEN Throw("createPattern", args, "TypeError")
     ELSE IF Closed(image) THEN Throw("createPattern", args, "DOMException")
     ELSE IF ~(\E c \in ImageClasses : InstanceOf(image, c))
     THEN Throw("createPattern", args, "TypeError")
     ELSE /\ LogOnly("createPattern", [image |-> image, type |-> type])
          /\ Return("createPattern", args)

createRadialGradient(args) ==
  IF Len(args) < 6 THEN Throw("createRadialGradient", args, "TypeError")
  ELSE LET r == Casts(SubSeq(args, 1, 6)) IN
       IF ~NumberIsFinite(Sum(r)) THEN Throw("createRadialGradient", args, "TypeError")
       ELSE IF IsNegative(r[3]) \/ IsNegative(r[6])
       THEN Throw("createRadialGradient", args, "DOMException")
       ELSE /\ LogOnly("createRadialGradient",
                       [x0 |-> r[1], y0 |-> r[2], r0 |-> r[3],
                        x1 |-> r[4], y1 |-> r[5], r1 |-> r[6]])
            /\ Return("createRadialGradient", args)

drawFocusIfNeeded(args) ==
  LET path == IF Len(args) = 1 THEN Null ELSE Arg(args, 1)
      element == IF Len(args) = 1 THEN args[1] ELSE Arg(args, 2)
  IN IF Len(args) = 0 THEN Throw("drawFocusIfNeeded", args, "TypeError")
     ELSE IF Len(args) = 2 /\ ~InstanceOf(args[1], "Path2D")
     THEN Throw("drawFocusIfNeeded", args, "TypeError")
     ELSE IF ~InstanceOf(element, "Element") THEN Throw("drawFocusIfNeeded", args, "TypeError")
     ELSE /\ LogOnly("drawFocusIfNeeded",
                     [path |-> IF Boolean(path) THEN path.o ELSE <<>>,
                      hasPath |-> Boolean(path), element |-> element])
          /\ Return("drawFocusIfNeeded", args)

\* the point and fill rule of isPointInPath, after its argument shuffle
isPointInPath(args) ==
  LET isPath == InstanceOf(Arg(args, 1), "Path2D")
      x == IF isPath THEN Arg(args, 2) ELSE Arg(args, 1)
      y == IF isPath THEN Arg(args, 3) ELSE Arg(args, 2)
      rule == IF isPath
              THEN (IF Arg(args, 4) = Undefined THEN Str("nonzero") ELSE args[4])
              ELSE IF Len(args) > 2 THEN args[3]
              ELSE IF Arg(args, 4) = Undefined THEN Str("nonzero") ELSE args[4]
  IN IF Len(args) < 2 THEN Throw("isPointInPath", args, "TypeError")
     ELSE IF ~OneOf(rule, {"nonzero", "evenodd"}) THEN Throw("isPointInPath", args, "TypeError")
     ELSE /\ LogOnly("isPointInPath", [x |-> Number(x), y |-> Number(y), fillRule |-> rule,
                                       path |-> PathOf(args)])
          /\ Return("isPointInPath", args)

\* the event is created with type 'isPointInPath'
isPointInStroke(args) ==
  LET isPath == InstanceOf(Arg(args, 1), "Path2D")
      x == IF isPath THEN Arg(args, 2) ELSE Arg(args, 1)
      y == IF isPath THEN Arg(args, 3) ELSE Arg(args, 2)
  IN IF Len(args) < 2 THEN Throw("isPointInStroke", args, "TypeError")
     ELSE /\ LogOnly("isPointInPath", [x |-> Number(x), y |-> Number(y),
                                       path |-> PathOf(args)])
          /\ Return("isPointInStroke", args)

measureText(args) ==
  IF Len(args) < 1 THEN Throw("measureText", args, "TypeError")
  ELSE /\ LogOnly("measureText",
                  [text |-> IF args[1] = Null \/ args[1] = Undefined THEN "" ELSE String(args[1])])
       /\ Return("measureText", args)

putImageData(args) ==
  IF Len(args) < 3 THEN Throw("putImageData", args, "TypeError")
  ELSE IF Len(args) > 3 /\ Len(args) < 7 THEN Throw("putImageData", args, "TypeError")
  ELSE IF ~InstanceOf(args[1], "ImageData") THEN Throw("putImageData", args, "TypeError")
  ELSE LET r == [i \in 1..6 |-> Number(Arg(args, i + 1))] IN
       IF (Len(args) = 3 /\ ~NumberIsFinite(Add(r[1], r[2])))
          \/ (Len(args) # 3 /\ ~NumberIsFinite(Sum(r)))
       THEN Ignore("putImageData", args)
       ELSE /\ LogOnly("putImageData", [x |-> r[1], y |-> r[2], dirtyX |-> r[3],
                                        dirtyY |-> r[4], dirtyWidth |-> r[5],
                                        dirtyHeight |-> r[6]])
            /\ Return("putImageData", args)

removeHitRegion(args) ==
  IF Len(args) < 1 THEN Throw("removeHitRegion", args, "TypeError")
  ELSE /\ LogOnly("removeHitRegion", [id |-> args[1]])
       /\ Return("removeHitRegion", args)

scrollPathIntoView(args) ==
  /\ LogOnly("scrollPathIntoView", [path |-> PathOf(args)])
  /\ Return("scrollPathIntoView", args)

(***************************************************************************)
(* The arguments the model calls the operations with.                      *)
(***************************************************************************)
\* n arguments, each the number 1
Ones(n) == [i \in 1..n |-> Num(1)]

\* values whose numeric cast is not finite
NonFinite == {NaN, NegInf, Str("abc")}

\* a call with n arguments of which the first or the last is not finite
OneNonFinite(n) == {[Ones(n) EXCEPT ![i] = v] : i \in {1, n}, v \in NonFinite}

\* calls of an operation that requires n numbers: well-formed, with the number
\* "1" given as a string, one argument short, and with a non-finite argument
Numeric(n) ==
  {Ones(n), [Ones(n) EXCEPT ![1] = NumStr("1", 1)], Ones(n - 1)} \cup OneNonFinite(n)

APath2D == Obj("Path2D", <<HandleSegment>>)
AMatrix == Obj("DOMMatrix", <<Num(2), Num(0), Num(0), Num(2), Num(1), Num(1)>>)
ANonFiniteMatrix == Obj("DOMMatrix", <<NaN, Num(0), Num(0), Num(1), Num(0), Num(0)>>)
AnImage == Obj("HTMLImageElement", <<Num(3), Num(4)>>)
AClosedBitmap == Obj("ImageBitmap", <<Num(3), Num(4), Bool(TRUE)>>)
AnImageData == Obj("ImageData", <<Num(3), Num(4)>>)
AnElement == Obj("Element", <<>>)
AGradient == Obj("CanvasGradient", <<>>)
Array(items) == Obj("Array", items)

ArcArgs == Numeric(5) \cup {[Ones(5) EXCEPT ![3] = Num(-1)]}
ArcToArgs == Numeric(5) \cup {[Ones(5) EXCEPT ![5] = Num(-1)]}
EllipseArgs == Numeric(7) \cup {[Ones(7) EXCEPT ![4] = Num(-1)]}
RadialArgs == Numeric(6) \cup {[Ones(6) EXCEPT ![3] = Num(-1)]}
PathArgs == {<<>>, <<APath2D>>, <<Str("evenodd")>>, <<Str("bogus")>>, <<APath2D, Str("bogus")>>,
             <<APath2D, Str("evenodd")>>, <<Str("nonzero")>>}
StrokeArgs == {<<>>, <<APath2D>>, <<Str("evenodd")>>}
SetTransformArgs == {<<>>, <<AMatrix>>, <<Num(1)>>, Ones(3)} \cup (Numeric(6) \ {Ones(5)})
DrawImageArgs ==
  {<<AnImage>> \o Ones(2), <<AnImage>> \o Ones(3), <<AnImage, Num(1), Num(1), Num(5), Num(6)>>,
   <<AnImage>> \o Ones(8), <<AClosedBitmap>> \o Ones(2), <<Num(1)>> \o Ones(2),
   <<AnImage, NaN, Num(1)>>, <<AnImage>> \o Ones(5), <<AnImage>> \o Ones(6),
   <<AnImage>> \o Ones(7),
   <<AnImage, Num(1), Num(2), Num(3), Num(4), Num(5), Num(6), Num(7), Num(8)>>}
TextArgs == {<<Str("hi")>> \o Ones(2), <<Str("hi")>> \o Ones(3), <<Str("hi"), Num(1)>>,
             <<Str("hi"), NaN, Num(1)>>}
PatternArgs == {<<AnImage, Str("repeat")>>, <<AnImage>>, <<AnImage, Str("bogus")>>,
                <<AClosedBitmap, Str("repeat")>>, <<Num(1), Str("repeat")>>}
PutImageDataArgs == {<<AnImageData>> \o Ones(2), <<AnImageData>> \o Ones(4),
                     <<Num(1)>> \o Ones(2), <<AnImageData, NaN, Num(1)>>}
PointArgs == {Ones(2), <<APath2D>> \o Ones(2), Ones(1), <<Num(1), Num(1), Str("bogus")>>}
DashArgs == {Array(<<Num(1), Num(2)>>), Array(<<Num(1), Num(2), Num(3)>>),
             Array(<<Num(1), Num(-1)>>), Num(1), Array(<<>>), Array(<<Num(0)>>),
             Array(<<NumStr("2", 2), Num(1)>>), Array(<<Num(1), NaN>>),
             Array(<<PosInf, Num(1), Num(1)>>)}

(***************************************************************************)
(* Spec: MaxSetup preparing calls (one of each kind of state change), then *)
(* one call of any operation with any of the argument lists above.         *)
(***************************************************************************)
Arranging == calls < MaxSetup
Probing == calls = MaxSetup

Next ==
  \/ Arranging /\ save
  \/ Arranging /\ restore
  \/ Arranging /\ set_lineWidth(Num(2))
  \/ Arranging /\ setLineDash(Array(<<Num(1)>>))
  \/ Arranging /\ translate(<<Num(1), Num(2)>>)
  \/ Arranging /\ lineTo(Ones(2))
  \/ Arranging /\ fillRect(Ones(4))
  \/ Probing /\ save
  \/ Probing /\ restore
  \/ Probing /\ \E v \in {Str("rtl"), Str("bogus")} : set_direction(v)
  \/ Probing /\ \E v \in {Str("red"), Str("bogus"), AGradient, Num(1)} : set_fillStyle(v)
  \/ Probing /\ \E v \in {Str("blur(1px)"), Str(""), Num(1)} : set_filter(v)
  \/ Probing /\ \E v \in {Str("12px serif"), Str("bogus")} : set_font(v)
  \/ Probing /\ \E v \in {Num(0), Num(2), NaN} : set_globalAlpha(v)
  \/ Probing /\ \E v \in {Str("xor"), Str("bogus")} : set_globalCompositeOperation(v)
  \/ Probing /\ \E v \in {Bool(FALSE), Num(1)} : set_imageSmoothingEnabled(v)
  \/ Probing /\ \E v \in {Str("high"), Str("bogus")} : set_imageSmoothingQuality(v)
  \/ Probing /\ \E v \in {Str("round"), Str("bogus")} : set_lineCap(v)
  \/ Probing /\ \E v \in {Num(2), NaN} : set_lineDashOffset(v)
  \/ Probing /\ \E v \in {Str("bevel"), Str("bogus")} : set_lineJoin(v)
  \/ Probing /\ \E v \in {Num(2), NumStr("3", 3), Num(0), NaN} : set_lineWidth(v)
  \/ Probing /\ \E v \in {Num(5), Num(0)} : set_miterLimit(v)
  \/ Probing /\ \E v \in {Num(2), Num(0)} : set_shadowBlur(v)
  \/ Probing /\ \E v \in {Str("red"), Str("bogus")} : set_shadowColor(v)
  \/ Probing /\ \E v \in {Num(3), NaN} : set_shadowOffsetX(v)
  \/ Probing /\ \E v \in {Num(4), NaN} : set_shadowOffsetY(v)
  \/ Probing /\ \E v \in {Str("#123456"), Str("bogus")} : set_strokeStyle(v)
  \/ Probing /\ \E v \in {Str("center"), Str("bogus")} : set_textAlign(v)
  \/ Probing /\ \E v \in {Str("top"), Str("bogus")} : set_textBaseline(v)
  \/ Probing /\ \E v \in DashArgs : setLineDash(v)
  \/ Probing /\ \E v \in {AMatrix, ANonFiniteMatrix, Num(1)} : set_currentTransform(v)
  \/ Probing /\ resetTransform
  \/ Probing /\ \E a \in Numeric(1) : rotate(a)
  \/ Probing /\ \E a \in Numeric(2) \cup {<<Num(2), Num(3)>>} : scale(a)
  \/ Probing /\ \E a \in SetTransformArgs : setTransform(a)
  \/ Probing /\ \E a \in Numeric(6) : transform(a)
  \/ Probing /\ \E a \in Numeric(2) : translate(a)
  \/ Probing /\ \E a \in ArcArgs : arc(a)
  \/ Probing /\ \E a \in ArcToArgs : arcTo(a)
  \/ Probing /\ beginPath
  \/ Probing /\ \E a \in Numeric(6) : bezierCurveTo(a)
  \/ Probing /\ \E a \in PathArgs : clip(a)
  \/ Probing /\ closePath
  \/ Probing /\ \E a \in EllipseArgs : ellipse(a)
  \/ Probing /\ \E a \in Numeric(2) : lineTo(a)
  \/ Probing /\ \E a \in Numeric(2) : moveTo(a)
  \/ Probing /\ \E a \in Numeric(4) : quadraticCurveTo(a)
  \/ Probing /\ \E a \in Numeric(4) : rect(a)
  \/ Probing /\ \E a \in Numeric(4) : clearRect(a)
  \/ Probing /\ \E a \in DrawImageArgs : drawImage(a)
  \/ Probing /\ \E a \in PathArgs : fill(a)
  \/ Probing /\ \E a \in Numeric(4) : fillRect(a)
  \/ Probing /\ \E a \in TextArgs : fillText(a)
  \/ Probing /\ \E a \in StrokeArgs : stroke(a)
  \/ Probing /\ \E a \in Numeric(4) : strokeRect(a)
  \/ Probing /\ \E a \in TextArgs : strokeText(a)
  \/ Probing /\ \E a \in {<<Obj("Object", <<Undefined, Undefined, Str("id")>>)>>, <<>>,
      <<Obj("Object", <<Undefined, Str("bogus"), Str("id")>>)>>} : addHitRegion(a)
  \/ Probing /\ clearHitRegions
  \/ Probing /\ \E a \in {<<AnImageData>>, Ones(2), <<>>, <<Num(1)>>, <<Num(0), Num(1)>>} : createImageData(a)
  \/ Probing /\ \E a \in Numeric(4) : createLinearGradient(a)
  \/ Probing /\ \E a \in PatternArgs : createPattern(a)
  \/ Probing /\ \E a \in RadialArgs : createRadialGradient(a)
  \/ Probing /\ \E a \in {<<AnElement>>, <<APath2D, AnElement>>, <<>>, <<Num(1), AnElement>>, <<Num(1)>>} :
      drawFocusIfNeeded(a)
  \/ Probing /\ \E a \in PointArgs : isPointInPath(a)
  \/ Probing /\ \E a \in PointArgs : isPointInStroke(a)
  \/ Probing /\ \E a \in {<<Str("hi")>>, <<>>} : measureText(a)
  \/ Probing /\ \E a \in PutImageDataArgs : putImageData(a)
  \/ Probing /\ \E a \in {<<Str("id")>>, <<>>} : removeHitRegion(a)
  \/ Probing /\ \E a \in {<<>>, <<APath2D>>} : scrollPathIntoView(a)

Spec == Init /\ [][Next]_vars

(***************************************************************************)
(* SpecStack: save, restore and one operation of each kind that touches a  *)
(* frame, the path or the logs, in any order.                              *)
(***************************************************************************)
InStack == calls < MaxStackCalls

NextStack ==
  \/ InStack /\ save
  \/ InStack /\ restore
  \/ InStack /\ set_lineWidth(Num(2))
  \/ InStack /\ set_shadowOffsetY(Num(4))
  \/ InStack /\ set_fillStyle(Str("red"))
  \/ InStack /\ setLineDash(Array(<<Num(1)>>))
  \/ InStack /\ translate(<<Num(1), Num(2)>>)
  \/ InStack /\ scale(<<Num(2), Num(3)>>)
  \/ InStack /\ rotate(<<Num(1)>>)
  \/ InStack /\ transform(<<Num(1), Num(1), Num(0), Num(1), Num(2), Num(0)>>)
  \/ InStack /\ setTransform(<<AMatrix>>)
  \/ InStack /\ resetTransform
  \/ InStack /\ set_currentTransform(AMatrix)
  \/ InStack /\ lineTo(Ones(2))
  \/ InStack /\ beginPath
  \/ InStack /\ fillRect(Ones(4))

SpecStack == Init /\ [][NextStack]_vars

(***************************************************************************)
(* SpecStyle: save, restore and an accepted assignment of every style      *)
(* attribute.                                                              *)
(***************************************************************************)
InStyle == calls < MaxStyleCalls

NextStyle ==
  \/ InStyle /\ save
  \/ InStyle /\ restore
  \/ InStyle /\ set_direction(Str("rtl"))
  \/ InStyle /\ set_fillStyle(Str("red"))
  \/ InStyle /\ set_filter(Str("blur(1px)"))
  \/ InStyle /\ set_font(Str("12px serif"))
  \/ InStyle /\ set_globalAlpha(Num(0))
  \/ InStyle /\ set_globalCompositeOperation(Str("xor"))
  \/ InStyle /\ set_imageSmoothingEnabled(Bool(FALSE))
  \/ InStyle /\ set_imageSmoothingQuality(Str("high"))
  \/ InStyle /\ set_lineCap(Str("round"))
  \/ InStyle /\ set_lineDashOffset(Num(2))
  \/ InStyle /\ set_lineJoin(Str("bevel"))
  \/ InStyle /\ set_lineWidth(Num(2))
  \/ InStyle /\ set_miterLimit(Num(5))
  \/ InStyle /\ set_shadowBlur(Num(2))
  \/ InStyle /\ set_shadowColor(Str("red"))
  \/ InStyle /\ set_shadowOffsetX(Num(3))
  \/ InStyle /\ set_shadowOffsetY(Num(4))
  \/ InStyle /\ set_strokeStyle(Str("#123456"))
  \/ InStyle /\ set_textAlign(Str("center"))
  \/ InStyle /\ set_textBaseline(Str("top"))
  \/ InStyle /\ setLineDash(Array(<<Num(1), Num(2), Num(3)>>))

SpecStyle == Init /\ [][NextStyle]_vars

(***************************************************************************)
(* SpecCaller: a caller that records, reads the logs and the path, and     *)
(* modifies what it was handed.                                            *)
(***************************************************************************)
\* the caller keeps the array a reading call returned
Reads(op, array) ==
  /\ held' = array
  /\ Ends(op, <<>>, "ok")
  /\ UNCHANGED <<ctx, saved, handle>>

call_getEvents == Reads("__getEvents", getEvents)
call_getDrawCalls == Reads("__getDrawCalls", getDrawCalls)
call_getPath == Reads("__getPath", getPath)

\* held.push(x) with an object x of the caller's own (reference 0)
heldPush ==
  /\ held' = Append(held, 0)
  /\ Ends("caller: push", <<>>, "ok")
  /\ UNCHANGED <<ctx, saved, handle>>

\* held.pop()
heldPop ==
  /\ held # <<>>
  /\ held' = Pop(held)
  /\ Ends("caller: pop", <<>>, "ok")
  /\ UNCHANGED <<ctx, saved, handle>>

\* held[0] = x with an object x of the caller's own
heldReplace ==
  /\ held # <<>>
  /\ held' = [held EXCEPT ![1] = 0]
  /\ Ends("caller: replace", <<>>, "ok")
  /\ UNCHANGED <<ctx, saved, handle>>

\* held[i].transform[4] = 99: a write to an entry the array holds
heldAlter ==
  /\ \E i \in DOMAIN held :
       /\ held[i] \in DOMAIN heap
       /\ heap' = [heap EXCEPT ![held[i]].transform = [@ EXCEPT ![5] = Num(99)]]
  /\ Ends("caller: alter", <<>>, "ok")
  /\ UNCHANGED <<matrices, dashes, _drawCalls, _events, _path, stacks, _stackIndex, saved, held, handle>>

InCaller == calls < MaxCallerCalls

NextCaller ==
  \/ InCaller /\ fillRect(Ones(4))
  \/ InCaller /\ lineTo(Ones(2))
  \/ InCaller /\ stroke(<<>>)
  \/ InCaller /\ call_getEvents
  \/ InCaller /\ call_getDrawCalls
  \/ InCaller /\ call_getPath
  \/ InCaller /\ heldPush
  \/ InCaller /\ heldPop
  \/ InCaller /\ heldReplace
  \/ InCaller /\ heldAlter

SpecCaller == Init /\ [][NextCaller]_vars

(***************************************************************************)
(* SpecSetters: the setters with a validation rule of a range or a list,   *)
(* on values inside, on the edge of and outside their rule, at any depth.  *)
(***************************************************************************)
AlphaValues ==
  {Num(-1), Num(0), Num(1), Num(2), NaN, PosInf, NumStr("1", 1), Str("abc"),
   Bool(TRUE), Undefined}

WidthValues ==
  {Num(-1), Num(0), Num(1), Num(2), NaN, PosInf, NumStr("3", 3), Str("abc"), Undefined}

CapValues ==
  {Str("butt"), Str("round"), Str("square"), Str("miter"), Str("bogus"), Str(""), Num(1)}

JoinValues ==
  {Str("round"), Str("bevel"), Str("miter"), Str("butt"), Str("bogus"), Str(""), Num(1)}

CompositeValues ==
  {Str(t) : t \in compositeOperations} \cup {Str("bogus"), Str("Source-Over"), Undefined}

InSetters == calls < MaxSetterCalls

NextSetters ==
  \/ InSetters /\ save
  \/ InSetters /\ restore
  \/ InSetters /\ \E v \in AlphaValues : set_globalAlpha(v)
  \/ InSetters /\ \E v \in WidthValues : set_lineWidth(v)
  \/ InSetters /\ \E v \in WidthValues : set_miterLimit(v)
  \/ InSetters /\ \E v \in CapValues : set_lineCap(v)
  \/ InSetters /\ \E v \in JoinValues : set_lineJoin(v)
  \/ InSetters /\ \E v \in CompositeValues : set_globalCompositeOperation(v)

SpecSetters == Init /\ [][NextSetters]_vars

(***************************************************************************)
(* SpecMatrix: the transform operations on matrices that do not commute,   *)
(* with save and restore.                                                  *)
(***************************************************************************)
Six(a, b, c, d, e, f) == <<Num(a), Num(b), Num(c), Num(d), Num(e), Num(f)>>

\* a translation, a scaling, a quarter turn, two shears, a reflection, a
\* general and a singular matrix
Matrices ==
  {Six(1, 0, 0, 1, 3, 5), Six(2, 0, 0, 3, 0, 0), Six(0, 1, -1, 0, 0, 0),
   Six(1, 2, 0, 1, 0, 0), Six(1, 0, 3, 1, 1, 0), Six(-1, 0, 0, 1, 2, -3),
   Six(2, 1, 1, 3, 5, 7), Six(0, 0, 0, 0, 0, 0)}

\* calls of setTransform of every number of arguments from 0 to 7
Arities ==
  {<<>>, <<AMatrix>>, <<Num(1)>>, Ones(2), Ones(3), Ones(4), Ones(5), Ones(7),
   [Ones(6) EXCEPT ![2] = NaN]}

Offsets ==
  {<<Num(10), Num(0)>>, <<Num(1), Num(2)>>, <<Num(-3), Num(5)>>, <<NumStr("2", 2), Num(1)>>}

Factors == {<<Num(2), Num(3)>>, <<Num(-1), Num(1)>>, <<Num(0), Num(2)>>}

InMatrix == calls < MaxMatrixCalls

NextMatrix ==
  \/ InMatrix /\ save
  \/ InMatrix /\ restore
  \/ InMatrix /\ \E g \in Matrices : transform(g)
  \/ InMatrix /\ \E a \in Matrices \cup Arities : setTransform(a)
  \/ InMatrix /\ \E a \in Offsets : translate(a)
  \/ InMatrix /\ \E a \in Factors : scale(a)
  \/ InMatrix /\ \E n \in 0..3 : rotate(<<Num(n)>>)
  \/ InMatrix /\ resetTransform
  \/ InMatrix /\ set_currentTransform(AMatrix)

SpecMatrix == Init /\ [][NextMatrix]_vars

(***************************************************************************)
(* SpecPath: the path operations, the operations that capture the path, a  *)
(* change of the matrix and of the frame, and a caller that goes on        *)
(* building the Path2D handle it passes.                                   *)
(***************************************************************************)
\* the handle as the caller passes it: a Path2D whose _path is `handle`
TheHandle == Obj("Path2D", handle)

\* the caller adds a segment to the handle
extendHandle ==
  /\ handle' = Append(handle, -(Len(handle) + 1))
  /\ Ends("caller: path.lineTo", <<Num(1), Num(1)>>, "ok")
  /\ UNCHANGED <<ctx, saved, held>>

InPath == calls < MaxPathCalls

NextPath ==
  \/ InPath /\ save
  \/ InPath /\ restore
  \/ InPath /\ translate(<<Num(1), Num(2)>>)
  \/ InPath /\ beginPath
  \/ InPath /\ moveTo(Ones(2))
  \/ InPath /\ \E a \in {Ones(2), <<Num(1), NaN>>} : lineTo(a)
  \/ InPath /\ arc(Ones(5))
  \/ InPath /\ arcTo(Ones(5))
  \/ InPath /\ bezierCurveTo(Ones(6))
  \/ InPath /\ ellipse(Ones(7))
  \/ InPath /\ rect(Ones(4))
  \/ InPath /\ quadraticCurveTo(Ones(4))
  \/ InPath /\ closePath
  \/ InPath /\ \E a \in {<<>>, <<TheHandle>>} : clip(a)
  \/ InPath /\ \E a \in {<<>>, <<TheHandle>>} : fill(a)
  \/ InPath /\ \E a \in {<<>>, <<TheHandle>>} : stroke(a)
  \/ InPath /\ extendHandle

SpecPath == Init /\ [][NextPath]_vars

(***************************************************************************)
(* SpecRound: MaxRoundSetup calls that leave a path, draw calls and frames *)
(* behind, then beginPath(); rect(0, 0, 10, 10); stroke().                 *)
(***************************************************************************)
RoundRect == <<Num(0), Num(0), Num(10), Num(10)>>

BeforeRound == calls < MaxRoundSetup
RoundAt(k) == calls = MaxRoundSetup + k

NextRound ==
  \/ BeforeRound /\ save
  \/ BeforeRound /\ restore
  \/ BeforeRound /\ translate(<<Num(1), Num(2)>>)
  \/ BeforeRound /\ lineTo(Ones(2))
  \/ BeforeRound /\ closePath
  \/ BeforeRound /\ fillRect(Ones(4))
  \/ BeforeRound /\ fill(<<>>)
  \/ RoundAt(0) /\ beginPath
  \/ RoundAt(1) /\ rect(RoundRect)
  \/ RoundAt(2) /\ stroke(<<>>)

SpecRound == Init /\ [][NextRound]_vars

(***************************************************************************)
(* SpecDash: the dash list across frames, and a caller that modifies the   *)
(* array getLineDash() returned.                                           *)
(***************************************************************************)
\* ctx.getLineDash().push(9): the array returned is the one of the frame
pushLineDash ==
  /\ dashes' = [dashes EXCEPT ![RefAt(stacks._lineDashStack, _stackIndex)] =
                                Append(@, Num(9))]
  /\ Ends("caller: getLineDash().push", <<Num(9)>>, "ok")
  /\ UNCHANGED <<heap, matrices, _drawCalls, _events, _path, stacks, _stackIndex,
                 saved, held, handle>>

InDash == calls < MaxDashCalls

NextDash ==
  \/ InDash /\ save
  \/ InDash /\ restore
  \/ InDash /\ \E L \in {<<Num(1), Num(2)>>, <<Num(5)>>} : setLineDash(Array(L))
  \/ InDash /\ pushLineDash

SpecDash == Init /\ [][NextDash]_vars

(***************************************************************************)
(* SpecDefaults: MaxDefaultSetup calls that leave the attributes alone,    *)
(* then the assignment to an attribute of the value its getter returns     *)
(* (ctx.lineCap = ctx.lineCap).                                            *)
(***************************************************************************)
BeforeReassign == calls < MaxDefaultSetup
Reassigning == calls = MaxDefaultSetup

NextDefaults ==
  \/ BeforeReassign /\ save
  \/ BeforeReassign /\ restore
  \/ BeforeReassign /\ translate(<<Num(1), Num(2)>>)
  \/ BeforeReassign /\ lineTo(Ones(2))
  \/ BeforeReassign /\ fillRect(Ones(4))
  \/ BeforeReassign /\ set_fillStyle(Str("red"))
  \/ Reassigning /\ set_globalAlpha(get_globalAlpha)
  \/ Reassigning /\ set_lineWidth(get_lineWidth)
  \/ Reassigning /\ set_miterLimit(get_miterLimit)
  \/ Reassigning /\ set_lineDashOffset(get_lineDashOffset)
  \/ Reassigning /\ set_shadowBlur(get_shadowBlur)
  \/ Reassigning /\ set_shadowOffsetX(get_shadowOffsetX)
  \/ Reassigning /\ set_shadowOffsetY(get_shadowOffsetY)
  \/ Reassigning /\ set_lineCap(get_lineCap)
  \/ Reassigning /\ set_lineJoin(get_lineJoin)
  \/ Reassigning /\ set_globalCompositeOperation(get_globalCompositeOperation)
  \/ Reassigning /\ set_textAlign(get_textAlign)
  \/ Reassigning /\ set_textBaseline(get_textBaseline)
  \/ Reassigning /\ set_direction(get_direction)
  \/ Reassigning /\ set_imageSmoothingQuality(get_imageSmoothingQuality)

SpecDefaults == Init /\ [][NextDefaults]_vars

(***************************************************************************)
(* Properties.                                                             *)
(***************************************************************************)
\* a step that is one call of the operation named
Called(op) == calls' = calls + 1 /\ lastCall'.op = op

\* the records a log or the path shows to a reader
Shown(array) == [i \in DOMAIN array |-> Deref(heap, array[i])]

IsPrefix(s, t) == Len(s) <= Len(t) /\ SubSeq(t, 1, Len(s)) = s

\* C1: in every reachable state _stackIndex is at least 0 and every
\* per-attribute stack has exactly _stackIndex + 1 entries.
C1_StacksAligned ==
  /\ _stackIndex >= 0
  /\ \A f \in DOMAIN stacks : Len(stacks[f]) = _stackIndex + 1

\* two saves and a restore have happened
C1_Witness ==
  /\ _stackIndex = 1
  /\ lastCall.op = "restore"
  /\ Len(saved) = 1

\* C2: save() leaves every getter (lineWidth and the transform included)
\* returning what it returned before, and makes the stack one deeper.
C2_SaveDuplicates ==
  [][Called("save") => (Getters' = Getters /\ _stackIndex' = _stackIndex + 1)]_vars

\* C3: a restore() that matches a save() leaves getTransform() returning the
\* matrix it returned just before that save(), whatever transform operations
\* were made in between.
C3_TransformRestored ==
  [][(Called("restore") /\ _stackIndex > 0)
       => getTransform' = saved[Len(saved)].transform]_vars

\* the getters of the style attributes
StyleOf(g) == [f \in DOMAIN g \ {"transform"} |-> g[f]]

\* C4: a restore() that matches a save() leaves every style getter
\* (getLineDash included) returning what it returned just before that save(),
\* whatever style assignments and setLineDash calls were made in between.
C4_StyleRestored ==
  [][(Called("restore") /\ _stackIndex > 0)
       => StyleOf(Getters') = StyleOf(saved[Len(saved)])]_vars

\* save(), an accepted assignment, then the matching restore()
C4_Witness ==
  /\ lastCall.op = "restore"
  /\ Len(_events) = 3
  /\ heap[_events[1]].type = "save"
  /\ heap[_events[2]].type = "lineCap"
  /\ heap[_events[3]].type = "restore"
  /\ get_lineCap = Str("butt")

\* C5: restore() at depth 0 returns normally, changes nothing and records no
\* event.
C5_RestoreAtBottom ==
  [][(Called("restore") /\ _stackIndex = 0)
       => (lastCall'.result = "ok" /\ UNCHANGED ctx)]_vars

\* restore() was just called on a context that has recorded something but
\* never a restore: every restore() so far found depth 0
C5_Witness ==
  /\ lastCall.op = "restore"
  /\ _stackIndex = 0
  /\ _events # <<>>
  /\ \A i \in DOMAIN _events : heap[_events[i]].type # "restore"

DrawTypes ==
  {"fillRect", "strokeRect", "clearRect", "fillText", "strokeText",
   "drawImage", "fill", "stroke"}

IsDrawCall(ref) == heap[ref].type \in DrawTypes

\* C6: the draw-call log is the subsequence of the event log made of the
\* events of the eight drawing types, in the same order and the very same
\* records.
C6_DrawCallsAreDrawEvents == _drawCalls = SelectSeq(_events, IsDrawCall)

\* a stroke() has been recorded after an event that is no draw call
C6_Witness ==
  /\ lastCall.op = "stroke"
  /\ lastCall.result = "ok"
  /\ Len(_drawCalls) >= 1
  /\ Len(_events) > Len(_drawCalls)

\* C7: the event log and the draw-call log only grow at the end, and one call
\* adds at most one entry to each.
C7_AppendOnly ==
  [][/\ IsPrefix(Shown(_events), Shown(_events)')
     /\ IsPrefix(Shown(_drawCalls), Shown(_drawCalls)')
     /\ Len(_events') <= Len(_events) + 1
     /\ Len(_drawCalls') <= Len(_drawCalls) + 1]_vars

\* both logs have grown, the event log more than once
C7_Witness ==
  /\ Len(_events) >= 3
  /\ Len(_drawCalls) >= 1
  /\ lastCall.result = "ok"
  /\ lastCall.op \in DrawTypes

CallerOps == {"caller: push", "caller: pop", "caller: replace", "caller: alter"}

\* C8: nothing a caller does to an array that events(), drawCalls() or path()
\* returned, or to an entry of it, changes what these return afterwards.
C8_DefensiveCopies ==
  [][(calls' = calls + 1 /\ lastCall'.op \in CallerOps)
       => /\ Shown(getEvents)' = Shown(getEvents)
          /\ Shown(getDrawCalls)' = Shown(getDrawCalls)
          /\ Shown(getPath)' = Shown(getPath)]_vars

\* C9: an operation that raises leaves the context as it was.
C9_FailuresAtomic ==
  [][(calls' = calls + 1 /\ lastCall'.result # "ok") => UNCHANGED ctx]_vars

\* arc() has raised for its negative radius on a context with a saved frame
C9_Witness ==
  /\ lastCall.op = "arc"
  /\ lastCall.result = "DOMException"
  /\ _stackIndex > 0
  /\ _events # <<>>

\* the number of numeric parameters of the geometry operations
NumericArity ==
  [moveTo |-> 2, lineTo |-> 2, rect |-> 4, arc |-> 5, arcTo |-> 5,
   bezierCurveTo |-> 6, ellipse |-> 7, fillRect |-> 4, strokeRect |-> 4,
   clearRect |-> 4, translate |-> 2, scale |-> 2, rotate |-> 1,
   transform |-> 6, setTransform |-> 6,
   createLinearGradient |-> 4, createRadialGradient |-> 6]

Gradients == {"createLinearGradient", "createRadialGradient"}

\* a call that passes all the numeric parameters of its operation, one of
\* them a value whose cast is NaN or an infinity
NonFiniteCall(call) ==
  /\ call.op \in DOMAIN NumericArity
  /\ Len(call.args) >= NumericArity[call.op]
  /\ \E i \in 1..NumericArity[call.op] : ~NumberIsFinite(Number(call.args[i]))

\* C10: a call of a path, rectangle or transform operation with a numeric
\* argument that casts to NaN or an infinity returns normally and changes
\* nothing; such a call of createLinearGradient or createRadialGradient
\* raises, and records no event.
C10_NonFiniteIgnored ==
  [][(calls' = calls + 1 /\ NonFiniteCall(lastCall'))
       => /\ UNCHANGED ctx
          /\ (lastCall'.result = "ok") <=> (lastCall'.op \notin Gradients)]_vars

\* lineTo(1, NaN) has just returned on a context with a recorded history
C10_Witness ==
  /\ lastCall.op = "lineTo"
  /\ lastCall.args = <<Num(1), NaN>>
  /\ lastCall.result = "ok"
  /\ _events # <<>>

\* createRadialGradient with a non-finite argument has just raised
C10_GradientWitness ==
  /\ lastCall.op = "createRadialGradient"
  /\ NonFiniteCall(lastCall)
  /\ lastCall.result # "ok"

\* the rule of each of the six setters, as the claim states it
Allowed(op, v) ==
  CASE op = "globalAlpha" -> Number(v).k = "fin" /\ 0 <= Number(v).n /\ Number(v).n <= 1
    [] op \in {"lineWidth", "miterLimit"} -> Number(v).k = "fin" /\ Number(v).n > 0
    [] op = "lineCap" -> v.ty = "string" /\ v.s \in {"butt", "round", "square"}
    [] op = "lineJoin" -> v.ty = "string" /\ v.s \in {"round", "bevel", "miter"}
    [] op = "globalCompositeOperation" ->
         v.ty = "string" /\ v.s \in
           {"source-over", "source-in", "source-out", "source-atop",
            "destination-over", "destination-in", "destination-out",
            "destination-atop", "lighter", "copy", "xor", "multiply", "screen",
            "overlay", "darken", "lighten", "color-dodge", "color-burn",
            "hard-light", "soft-light", "difference", "exclusion", "hue",
            "saturation", "color", "luminosity"}

\* the value the getter is to return after an accepted assignment
Coerced(op, v) ==
  IF op \in {"globalAlpha", "lineWidth", "miterLimit"} THEN Number(v) ELSE v

RuledSetters ==
  {"globalAlpha", "lineWidth", "miterLimit", "lineCap", "lineJoin",
   "globalCompositeOperation"}

\* C11: an assignment to globalAlpha, lineWidth, miterLimit, lineCap, lineJoin
\* or globalCompositeOperation never raises; a value its rule allows is
\* written, coerced, to the current frame and one event is appended; any other
\* value changes nothing and appends no event.
C11_SettersFollowRules ==
  [][(calls' = calls + 1 /\ lastCall'.op \in RuledSetters)
       => /\ lastCall'.result = "ok"
          /\ IF Allowed(lastCall'.op, lastCall'.args[1])
             THEN /\ Getters'[lastCall'.op] = Coerced(lastCall'.op, lastCall'.args[1])
                  /\ Len(_events') = Len(_events) + 1
                  /\ IsPrefix(_events, _events')
             ELSE UNCHANGED ctx]_vars

\* lineWidth = "3" has been accepted on a saved frame, and reads back as 3
C11_Witness ==
  /\ lastCall.op = "lineWidth"
  /\ lastCall.args = <<NumStr("3", 3)>>
  /\ get_lineWidth = Num(3)
  /\ _stackIndex = 1

\* the assignable style attributes, and the getter each assignment is read by
StyleAttributes == DOMAIN Getters \ {"transform"}
StyleCalls == (StyleAttributes \ {"lineDash"}) \cup {"setLineDash"}
OwnGetter(op) == IF op = "setLineDash" THEN "lineDash" ELSE op

\* C12: an assignment to one attribute leaves the getter of every other
\* attribute returning what it returned before (shadowOffsetX and
\* shadowOffsetY in particular do not affect each other).
C12_AssignmentsAreLocal ==
  [][(calls' = calls + 1 /\ lastCall'.op \in StyleCalls)
       => \A B \in StyleAttributes \ {OwnGetter(lastCall'.op)} :
            Getters'[B] = Getters[B]]_vars

\* the six numbers getTransform() shows
Matrix == getTransform.o

\* the affine matrix [[a, c, e], [b, d, f], [0, 0, 1]] of six finite numbers
Affine(m) ==
  <<<<m[1].n, m[3].n, m[5].n>>, <<m[2].n, m[4].n, m[6].n>>, <<0, 0, 1>>>>

\* the matrix product A x B
Product(A, B) ==
  [i \in 1..3 |-> [j \in 1..3 |->
     A[i][1] * B[1][j] + A[i][2] * B[2][j] + A[i][3] * B[3][j]]]

AllFinite(args, n) ==
  Len(args) >= n /\ \A i \in 1..n : Number(args[i]).k = "fin"

\* C13: transform(a, b, c, d, e, f) on finite inputs replaces the current
\* matrix M by the product M x G, G being the affine matrix of the inputs.
C13_TransformRightMultiplies ==
  [][(Called("transform") /\ AllFinite(lastCall'.args, 6))
       => /\ \A i \in 1..6 : Matrix'[i].k = "fin"
          /\ Affine(Matrix') = Product(Affine(Matrix), Affine(Casts(lastCall'.args)))]_vars

\* transform has composed two matrices whose products in the two orders differ
C13_Witness ==
  /\ lastCall.op = "transform"
  /\ Len(_events) = 2
  /\ heap[_events[1]].type = "setTransform"
  /\ Affine(Matrix) =
       Product(Affine(heap[_events[1]].transform), Affine(lastCall.args))
  /\ Affine(Matrix) #
       Product(Affine(lastCall.args), Affine(heap[_events[1]].transform))

\* C14: from the matrix (a, b, c, d, e, f), translate(x, y) leaves
\* (a, b, c, d, e + a*x + c*y, f + b*x + d*y) and scale(x, y) leaves
\* (a*x, b*x, c*y, d*y, e, f); scale(2, 3) on the identity leaves
\* (2, 0, 0, 3, 0, 0), and rotate(0) leaves the matrix as it is.
C14_TranslateAndScale ==
  [][LET m == [i \in 1..6 |-> Matrix[i].n]
         x == Number(lastCall'.args[1]).n
         y == Number(lastCall'.args[2]).n
     IN /\ (Called("translate") /\ AllFinite(lastCall'.args, 2))
             => Matrix' = Six(m[1], m[2], m[3], m[4],
                              m[5] + m[1] * x + m[3] * y, m[6] + m[2] * x + m[4] * y)
        /\ (Called("scale") /\ AllFinite(lastCall'.args, 2))
             => Matrix' = Six(m[1] * x, m[2] * x, m[3] * y, m[4] * y, m[5], m[6])
        /\ (Called("scale") /\ lastCall'.args = <<Num(2), Num(3)>> /\ Matrix = Identity)
             => Matrix' = Six(2, 0, 0, 3, 0, 0)
        /\ (Called("rotate") /\ lastCall'.args = <<Num(0)>>)
             => Matrix' = Matrix]_vars

\* translate has moved the origin of a matrix that is no translation
C14_Witness ==
  /\ lastCall.op = "translate"
  /\ lastCall.args = <<Num(1), Num(2)>>
  /\ Len(_events) = 2
  /\ heap[_events[1]].type = "setTransform"
  /\ heap[_events[1]].transform = Six(2, 1, 1, 3, 5, 7)
  /\ Matrix = Six(2, 1, 1, 3, 9, 14)

\* C15: setTransform takes no argument (identity), one matrix handle (its six
\* numbers) or six numbers (those); with any other number of arguments it
\* raises and leaves the matrix as it was.
C15_SetTransformArities ==
  [][Called("setTransform")
       => LET args == lastCall'.args IN
          /\ Len(args) = 0 => (lastCall'.result = "ok" /\ Matrix' = Identity)
          /\ (Len(args) = 1 /\ InstanceOf(args[1], "DOMMatrix"))
               => (lastCall'.result = "ok" /\ Matrix' = args[1].o)
          /\ (Len(args) = 6 /\ AllFinite(args, 6))
               => (lastCall'.result = "ok" /\ Matrix' = Casts(args))
          /\ Len(args) \notin {0, 1, 6}
               => (lastCall'.result # "ok" /\ Matrix' = Matrix)]_vars

MatrixCalls ==
  {"translate", "scale", "rotate", "transform", "setTransform", "resetTransform",
   "save", "restore"}

\* C16: the event that a successful translate, scale, rotate, transform,
\* setTransform, resetTransform, save or restore appends records the matrix
\* getTransform() returns right after the call; resetTransform records, and
\* leaves, the identity.
C16_EventsRecordNewMatrix ==
  [][(calls' = calls + 1 /\ lastCall'.op \in MatrixCalls /\ lastCall'.result = "ok"
        /\ Len(_events') = Len(_events) + 1)
       => /\ heap'[_events'[Len(_events')]].type = lastCall'.op
          /\ heap'[_events'[Len(_events')]].transform = Matrix'
          /\ lastCall'.op = "resetTransform" => Matrix' = Identity]_vars

\* a scaling has been recorded with a matrix other than the one before it
C16_Witness ==
  /\ lastCall.op = "scale"
  /\ Len(_events) = 2
  /\ heap[_events[1]].type = "save"
  /\ heap[_events[2]].type = "scale"
  /\ heap[_events[2]].transform = Matrix
  /\ heap[_events[2]].transform # heap[_events[1]].transform

\* the path has a first segment, made by beginPath() or by the constructor
PathBegins == _path # <<>> /\ heap[_path[1]].type = "beginPath"

\* beginPath() leaves a path of its one new event; any other step leaves the
\* path as it is or adds one segment at its end
PathStep ==
  IF Called("beginPath")
  THEN /\ Len(_path') = 1
       /\ heap'[_path'[1]].type = "beginPath"
       /\ _events' = Append(_events, _path'[1])
       /\ _path'[1] \notin DOMAIN heap
  ELSE \/ Shown(_path)' = Shown(_path)
       \/ /\ Len(_path') = Len(_path) + 1
          /\ IsPrefix(Shown(_path), Shown(_path)')

\* C17: the path is never empty and always starts with a beginPath segment;
\* beginPath() sets it to one new beginPath segment and appends one event;
\* every other operation leaves the path alone or appends one segment to it.
C17_PathLifecycle == []PathBegins /\ [][PathStep]_vars

\* beginPath() has just replaced a path that had grown
C17_Witness ==
  /\ lastCall.op = "beginPath"
  /\ Len(_path) = 1
  /\ _path[1] = _events[Len(_events)]
  /\ \E i \in DOMAIN _events : heap[_events[i]].type = "lineTo"

PathCalls ==
  {"moveTo", "lineTo", "arc", "arcTo", "bezierCurveTo", "ellipse", "rect",
   "closePath", "clip"}

\* the constructor's segment is the first object made
IsLogged(ref) == ref # 1 /\ \E i \in DOMAIN _path : _path[i] = ref
NotSentinel(ref) == ref # 1

\* C18: a path-construction call that takes effect appends one record to the
\* path and that very record to the event log; so the segments of the path,
\* the constructor's apart, all occur in the event log, in the same order.
C18_SegmentsAreEvents ==
  /\ [](SelectSeq(_path, NotSentinel) = SelectSeq(_events, IsLogged))
  /\ [][(calls' = calls + 1 /\ lastCall'.op \in PathCalls /\ lastCall'.result = "ok"
           /\ ctx' # ctx)
          => \E ref \in DOMAIN heap' \ DOMAIN heap :
               /\ _path' = Append(_path, ref)
               /\ _events' = Append(_events, ref)]_vars

\* a closePath() has been added to a path begun by beginPath()
C18_Witness ==
  /\ lastCall.op = "closePath"
  /\ Len(_path) = 3
  /\ _path[1] # 1
  /\ heap[_path[3]].type = "closePath"
  /\ _path = _events

\* C19: a logged event or segment never changes: its transform and the path
\* it captured stay as they were at the call, whatever transform, save,
\* restore or path operation follows, and whatever is added afterwards to the
\* Path2D handle it was taken from.
C19_HistoryIsImmutable ==
  [][\A ref \in DOMAIN heap : ref \in DOMAIN heap' /\ heap'[ref] = heap[ref]]_vars

\* a fill of the handle is on record with the handle's segments of the time,
\* the handle has grown since and the matrix has changed since
C19_Witness ==
  /\ lastCall.op = "translate"
  /\ Len(handle) = 2
  /\ \E ref \in DOMAIN heap :
       /\ heap[ref].type = "fill"
       /\ heap[ref].props.path = <<HandleSegment>>
       /\ heap[ref].transform # Matrix

\* the positions of the radius arguments
RadiusAt == [arc |-> {3}, arcTo |-> {5}, ellipse |-> {3, 4}]

\* a call with all its numeric arguments, all finite, and a negative radius
NegativeRadiusCall(call) ==
  /\ call.op \in DOMAIN RadiusAt
  /\ AllFinite(call.args, NumericArity[call.op])
  /\ \E i \in RadiusAt[call.op] : Number(call.args[i]).n < 0

\* C20: arc, arcTo and ellipse with enough arguments, all finite, and a
\* negative radius raise a failure of the range category (DOMException, not
\* the TypeError of a missing argument), and add no segment and no event.
C20_NegativeRadiusIsRangeFailure ==
  [][(calls' = calls + 1 /\ NegativeRadiusCall(lastCall'))
       => (lastCall'.result = "DOMException" /\ UNCHANGED ctx)]_vars

\* the least number of arguments of the operations that count them
MinArgs ==
  [arc |-> 5, arcTo |-> 5, bezierCurveTo |-> 6, ellipse |-> 7, rect |-> 4,
   fillRect |-> 4, strokeRect |-> 4, clearRect |-> 4, moveTo |-> 2,
   lineTo |-> 2, translate |-> 2, scale |-> 2, rotate |-> 1, transform |-> 6,
   createLinearGradient |-> 4, createRadialGradient |-> 6]

\* a call with exactly the least number of arguments, all finite, none negative
MinimalCall(call) ==
  /\ call.op \in DOMAIN MinArgs
  /\ Len(call.args) = MinArgs[call.op]
  /\ AllFinite(call.args, MinArgs[call.op])
  /\ \A i \in 1..Len(call.args) : Number(call.args[i]).n >= 0

\* C21: each operation that requires a number of arguments raises a failure
\* of the arity category (TypeError) when called with fewer, changing
\* nothing, and returns normally when called with exactly that many valid
\* arguments.
C21_ArityEnforced ==
  [][(calls' = calls + 1 /\ lastCall'.op \in DOMAIN MinArgs)
       => /\ Len(lastCall'.args) < MinArgs[lastCall'.op]
               => (lastCall'.result = "TypeError" /\ UNCHANGED ctx)
          /\ MinimalCall(lastCall') => lastCall'.result = "ok"]_vars

\* the operations that capture a path
Capturing == {"fill", "stroke", "clip"}
FillRules == {"nonzero", "evenodd"}

\* the handle a call passes, if it passes one, and the fill rule it names
HandleGiven(call) == Len(call.args) > 0 /\ InstanceOf(call.args[1], "Path2D")
RuleGiven(call) ==
  IF HandleGiven(call)
  THEN (IF Len(call.args) > 1 THEN <<call.args[2]>> ELSE <<>>)
  ELSE (IF Len(call.args) > 0 THEN <<call.args[1]>> ELSE <<>>)

\* the event the last call appended
NewEvent == heap'[Len(heap')]

\* C22: fill, stroke and clip without a handle record the live path as it was
\* before the call, and with a handle the handle's segments; fill and clip
\* record the rule nonzero when none is given and the rule given when it is
\* nonzero or evenodd, and raise, recording nothing, for any other rule.
C22_PathAndRuleByShape ==
  [][(calls' = calls + 1 /\ lastCall'.op \in Capturing)
       => LET call == lastCall'
              rule == RuleGiven(call)
              ruled == call.op # "stroke"
          IN /\ (ruled /\ rule # <<>> /\ String(rule[1]) \notin FillRules)
                  => (call.result # "ok" /\ UNCHANGED ctx)
             /\ ((ruled /\ (rule = <<>> \/ String(rule[1]) \in FillRules))
                   \/ (~ruled /\ (call.args = <<>> \/ HandleGiven(call))))
                  => /\ call.result = "ok"
                     /\ Len(heap') = Len(heap) + 1
                     /\ NewEvent.type = call.op
                     /\ NewEvent.props.path =
                          (IF HandleGiven(call) THEN call.args[1].o ELSE _path)
                     /\ ruled => NewEvent.props.fillRule =
                          (IF rule = <<>> THEN "nonzero" ELSE String(rule[1]))]_vars

\* fill(handle, "evenodd") has recorded the handle's segments and the rule
\* on a context whose live path is not empty
C22_Witness ==
  /\ lastCall.op = "fill"
  /\ lastCall.args = <<APath2D, Str("evenodd")>>
  /\ lastCall.result = "ok"
  /\ _path # <<>>
  /\ heap[Len(heap)].props = [path |-> <<HandleSegment>>, fillRule |-> "evenodd"]

\* C23: beginPath(); rect(0, 0, 10, 10); stroke(), from any state, leaves
\* a path of exactly two segments, the beginPath sentinel and the rect, and
\* adds exactly one draw call, the stroke, whose captured path is those two
\* segments.
C23_RoundTrip ==
  [][/\ (RoundAt(0) \/ RoundAt(1)) => UNCHANGED _drawCalls
     /\ RoundAt(2) =>
          /\ Len(_drawCalls') = Len(_drawCalls) + 1
          /\ IsPrefix(_drawCalls, _drawCalls')
          /\ heap'[_drawCalls'[Len(_drawCalls')]].type = "stroke"
          /\ heap'[_drawCalls'[Len(_drawCalls')]].props.path = getPath'
          /\ Len(getPath') = 2
          /\ heap'[getPath'[1]].type = "beginPath"
          /\ heap'[getPath'[2]].type = "rect"
          /\ heap'[getPath'[2]].props = RectProps(RoundRect)]_vars

\* the three calls have been made on a context that had a longer path, a
\* draw call and a saved frame
C23_Witness ==
  /\ RoundAt(3)
  /\ lastCall.op = "stroke"
  /\ Len(_drawCalls) = 2
  /\ _stackIndex > 0
  /\ \E ref \in DOMAIN heap : heap[ref].type = "lineTo"
  /\ Len(_path) = 2

\* a list of which every element is a finite number that is not negative
DashList(L) ==
  \A i \in 1..Len(L) : /\ Number(L[i]).k = "fin"
                       /\ Number(L[i]).n >= 0

\* C24: setLineDash(L) with every element finite and not negative stores the
\* numbers of L when L has even length and those of L followed by L when it
\* has odd length, a list of even length either way; with a negative or
\* non-finite element the call returns leaving the dash list and the logs as
\* they were.
C24_DashNormalised ==
  [][(calls' = calls + 1 /\ lastCall'.op = "setLineDash"
        /\ IsSequence(lastCall'.args[1]))
       => LET L == lastCall'.args[1].o
              numbers == [i \in 1..Len(L) |-> Number(L[i])]
          IN /\ lastCall'.result = "ok"
             /\ IF DashList(L)
                THEN /\ getLineDash' = (IF Len(L) % 2 = 0 THEN numbers
                                                            ELSE numbers \o numbers)
                     /\ Len(getLineDash') % 2 = 0
                ELSE UNCHANGED ctx]_vars

\* setLineDash([1, 2, 3]) has stored [1, 2, 3, 1, 2, 3] in a saved frame
C24_Witness ==
  /\ lastCall.op = "setLineDash"
  /\ lastCall.args = <<Array(<<Num(1), Num(2), Num(3)>>)>>
  /\ _stackIndex > 0
  /\ getLineDash = <<Num(1), Num(2), Num(3), Num(1), Num(2), Num(3)>>

\* setLineDash([1, NaN]) has returned and left the list set before
C24_RejectWitness ==
  /\ lastCall.op = "setLineDash"
  /\ lastCall.args = <<Array(<<Num(1), NaN>>)>>
  /\ lastCall.result = "ok"
  /\ getLineDash = <<Num(1), Num(1)>>

\* the dash list of every frame of the stack
DashLists ==
  [f \in DOMAIN stacks._lineDashStack |-> Deref(dashes, stacks._lineDashStack[f])]

\* C25: a change the caller makes to the sequence getLineDash() returned
\* changes neither what getLineDash() returns afterwards nor the dash list
\* of any frame of the stack.
C25_GetLineDashCopies ==
  [][(calls' = calls + 1 /\ lastCall'.op = "caller: getLineDash().push")
       => (getLineDash' = getLineDash /\ DashLists' = DashLists)]_vars

\* the transform array of every frame of the stack
TransformArrays ==
  [f \in DOMAIN stacks._transformStack |-> Deref(matrices, stacks._transformStack[f])]

\* C26: the six components of the transform of every frame are finite
\* numbers, whatever transform operations and currentTransform assignments
\* were made, with whatever arguments.
C26_TransformsFinite ==
  \A f \in DOMAIN TransformArrays :
    \A i \in 1..6 : NumberIsFinite(TransformArrays[f][i])

\* the geometry operations that ignore a non-finite argument
Geometry == DOMAIN NumericArity \ Gradients

\* C27: a call of a geometry operation with all its numeric arguments is a
\* silent no-op exactly when the numeric cast of one of them is not finite,
\* so that the number 1 and the string "1" are treated alike, by moveTo,
\* rect, fillRect and clearRect as by lineTo and strokeRect.
C27_CoercionBeforeFiniteness ==
  [][(/\ calls' = calls + 1
      /\ lastCall'.op \in Geometry
      /\ Len(lastCall'.args) >= NumericArity[lastCall'.op])
       => ((lastCall'.result = "ok" /\ UNCHANGED ctx)
             <=> ~AllFinite(lastCall'.args, NumericArity[lastCall'.op]))]_vars

\* the numeric parameters of the path operations, by the name their
\* segments carry them under, in the order of the arguments
NumericFields ==
  [moveTo |-> <<"x", "y">>,
   lineTo |-> <<"x", "y">>,
   rect |-> <<"x", "y", "width", "height">>,
   arc |-> <<"x", "y", "radius", "startAngle", "endAngle">>,
   arcTo |-> <<"cpx1", "cpy1", "cpx2", "cpy2", "radius">>,
   ellipse |-> <<"x", "y", "radiusX", "radiusY", "rotation", "startAngle", "endAngle">>,
   bezierCurveTo |-> <<"cpx1", "cpy1", "cpx2", "cpy2", "x", "y">>]

\* C28: the segment a path operation records carries, for each numeric
\* parameter, the numeric cast of the argument and not the argument as the
\* caller passed it.
C28_SegmentsCarryCasts ==
  [][(/\ calls' = calls + 1
      /\ lastCall'.op \in DOMAIN NumericFields
      /\ Len(heap') = Len(heap) + 1)
       => LET fields == NumericFields[lastCall'.op] IN
          \A i \in 1..Len(fields) :
            NewEvent.props[fields[i]] = Number(lastCall'.args[i])]_vars

ShadowOffsets == {"shadowOffsetX", "shadowOffsetY"}

\* C29: the shadowOffsetY getter always returns what the shadowOffsetX
\* getter returns, which after an accepted assignment to either is the
\* number assigned; every entry of the shadowOffsetY stack is 0, and only
\* save and restore change that stack.
C29_ShadowOffsetYUsesXStack ==
  /\ [](/\ get_shadowOffsetY = get_shadowOffsetX
        /\ \A f \in DOMAIN stacks._shadowOffsetYStack :
             stacks._shadowOffsetYStack[f] = Num(0))
  /\ [][/\ (calls' = calls + 1 /\ lastCall'.op \notin {"save", "restore"})
           => UNCHANGED stacks._shadowOffsetYStack
        /\ (/\ calls' = calls + 1
            /\ lastCall'.op \in ShadowOffsets
            /\ Number(lastCall'.args[1]).k = "fin")
           => /\ get_shadowOffsetX' = Number(lastCall'.args[1])
              /\ get_shadowOffsetY' = Number(lastCall'.args[1])]_vars

\* shadowOffsetY = 4 was assigned in a saved frame: both getters return 4
\* and the shadowOffsetY stack holds two entries
C29_Witness ==
  /\ lastCall.op = "shadowOffsetY"
  /\ _stackIndex = 1
  /\ get_shadowOffsetX = Num(4)
  /\ get_shadowOffsetY = Num(4)
  /\ Len(stacks._shadowOffsetYStack) = 2

\* the arguments of the transform call that a translate, scale or rotate
\* call stands for
AsTransform(call) ==
  LET x == Number(call.args[1])
      y == Number(call.args[2])
  IN CASE call.op = "translate" -> <<Num(1), Num(0), Num(0), Num(1), x, y>>
       [] call.op = "scale" -> <<x, Num(0), Num(0), y, Num(0), Num(0)>>
       [] call.op = "rotate" -> <<Cos(x), Sin(x), Sub(Num(0), Sin(x)), Cos(x), Num(0), Num(0)>>
       [] call.op = "transform" -> Casts(SubSeq(call.args, 1, 6))

\* C30: translate(x, y), scale(x, y) and rotate(t) leave the matrix that
\* transform(1, 0, 0, 1, x, y), transform(x, 0, 0, y, 0, 0) and
\* transform(cos t, sin t, -sin t, cos t, 0, 0) leave from the same matrix,
\* and each appends exactly one event.
C30_SpecialCasesOfTransform ==
  [][(/\ calls' = calls + 1
      /\ lastCall'.op \in {"translate", "scale", "rotate", "transform"}
      /\ AllFinite(lastCall'.args, NumericArity[lastCall'.op]))
       => /\ Matrix' = Transformed(Matrix, AsTransform(lastCall'))
          /\ Len(_events') = Len(_events) + 1
          /\ IsPrefix(_events, _events')]_vars

\* a quarter turn has been applied to a matrix that is not the identity
C30_Witness ==
  /\ lastCall.op = "rotate"
  /\ lastCall.args = <<Num(1)>>
  /\ Len(_events) = 2
  /\ heap[_events[1]].transform = Six(2, 1, 1, 3, 5, 7)
  /\ Matrix = Six(1, 3, -2, -1, 5, 7)

\* C31: the type of every event is the name of the method that was called
\* or of the attribute that was assigned when it was appended.
C31_TypeNamesOperation ==
  [][(calls' = calls + 1 /\ Len(heap') = Len(heap) + 1)
       => NewEvent.type = lastCall'.op]_vars

\* the number of events of a type among the first k events of the log
CountOf(type, k) == Cardinality({i \in 1..k : heap[_events[i]].type = type})

\* C32: the depth is the number of save events less the number of restore
\* events of the log, and no prefix of the log holds more restore events
\* than save events; save always appends a save event, and restore appends
\* a restore event exactly when the depth is above 0.
C32_LogMirrorsDepth ==
  /\ [](/\ _stackIndex = CountOf("save", Len(_events)) - CountOf("restore", Len(_events))
        /\ \A k \in 0..Len(_events) : CountOf("restore", k) <= CountOf("save", k))
  /\ [][/\ Called("save")
           => /\ Len(_events') = Len(_events) + 1
              /\ heap'[_events'[Len(_events')]].type = "save"
        /\ Called("restore")
           => IF _stackIndex > 0
              THEN /\ Len(_events') = Len(_events) + 1
                   /\ heap'[_events'[Len(_events')]].type = "restore"
              ELSE UNCHANGED _events]_vars

\* save, restore and a second restore at depth 0, which logged nothing
C32_Witness ==
  /\ lastCall.op = "restore"
  /\ calls = 3
  /\ _stackIndex = 0
  /\ Len(_events) = 2
  /\ heap[_events[1]].type = "save"
  /\ heap[_events[2]].type = "restore"

\* the operations that build the path
PathBuilders ==
  {"beginPath", "moveTo", "lineTo", "arc", "arcTo", "bezierCurveTo", "ellipse",
   "rect", "closePath", "clip"}

\* C33: only the path-construction operations change the path: save,
\* restore, the attribute assignments, the transform operations, fill,
\* stroke, the rectangle and text drawing operations and quadraticCurveTo
\* leave it as it was, and clip adds one segment, of type clip, to it.
C33_OnlyPathOperationsChangePath ==
  [][/\ (calls' = calls + 1 /\ lastCall'.op \notin PathBuilders)
        => getPath' = getPath
     /\ (Called("clip") /\ lastCall'.result = "ok")
        => /\ Len(getPath') = Len(getPath) + 1
           /\ IsPrefix(getPath, getPath')
           /\ heap'[getPath'[Len(getPath')]].type = "clip"]_vars

\* clip() has added its segment to a path that lineTo had extended
C33_Witness ==
  /\ lastCall.op = "clip"
  /\ lastCall.result = "ok"
  /\ Len(_path) >= 3
  /\ heap[_path[Len(_path)]].type = "clip"
  /\ heap[_path[Len(_path) - 1]].type = "lineTo"

\* quadraticCurveTo(1, 1, 1, 1) has logged its event and the path, which
\* lineTo had extended, does not hold it
C33_CurveWitness ==
  /\ lastCall.op = "quadraticCurveTo"
  /\ lastCall.result = "ok"
  /\ _events # <<>>
  /\ heap[_events[Len(_events)]].type = "quadraticCurveTo"
  /\ Len(_path) >= 2
  /\ heap[_path[Len(_path)]].type = "lineTo"

\* the defaults of the fourteen attributes, as the claim lists them
ListedDefaults ==
  [globalAlpha |-> Num(1), lineWidth |-> Num(1), miterLimit |-> Num(10),
   lineDashOffset |-> Num(0), shadowBlur |-> Num(0), shadowOffsetX |-> Num(0),
   shadowOffsetY |-> Num(0), lineCap |-> Str("butt"), lineJoin |-> Str("miter"),
   globalCompositeOperation |-> Str("source-over"), textAlign |-> Str("start"),
   textBaseline |-> Str("alphabetic"), direction |-> Str("inherit"),
   imageSmoothingQuality |-> Str("low")]

\* the attribute of the last call was assigned the value its getter
\* returned, and that value was its default
DefaultReassigned ==
  /\ calls' = calls + 1
  /\ lastCall'.op \in DOMAIN ListedDefaults
  /\ lastCall'.args = <<Getters[lastCall'.op]>>
  /\ Getters[lastCall'.op] = ListedDefaults[lastCall'.op]

\* C34: the assignment to an attribute of its default, which its getter
\* returns, is accepted: it appends exactly one event and leaves the getter
\* returning the default.
C34_DefaultsAreAccepted ==
  [][DefaultReassigned
       => /\ lastCall'.result = "ok"
          /\ Len(_events') = Len(_events) + 1
          /\ IsPrefix(_events, _events')
          /\ Getters'[lastCall'.op] = Getters[lastCall'.op]]_vars

\* a drawImage call that passes an image the context accepts and numbers
\* that are finite
DrawsAnImage(call) ==
  /\ call.op = "drawImage"
  /\ Len(call.args) >= 1
  /\ \E c \in ImageClasses : InstanceOf(call.args[1], c)
  /\ ~Closed(call.args[1])
  /\ \A i \in 2..Len(call.args) : call.args[i].ty = "number" /\ call.args[i].k = "fin"

\* C35: drawImage(img, dx, dy) records dx and dy as given and the image's
\* width and height as dWidth and dHeight; drawImage(img, dx, dy, dWidth,
\* dHeight) records the width and height given; with 9 arguments the eight
\* numbers are recorded as given; with 4, 6, 7 or 8 arguments the call raises
\* and records nothing.
C35_DrawImageDestination ==
  [][(calls' = calls + 1 /\ DrawsAnImage(lastCall'))
       => LET a == lastCall'.args
              n == Len(a)
              recorded == lastCall'.result = "ok" /\ Len(heap') = Len(heap) + 1
          IN /\ n = 3 => /\ recorded
                         /\ NewEvent.props.dx = a[2]
                         /\ NewEvent.props.dy = a[3]
                         /\ NewEvent.props.dWidth = Width(a[1])
                         /\ NewEvent.props.dHeight = Height(a[1])
             /\ n = 5 => /\ recorded
                         /\ NewEvent.props.dx = a[2]
                         /\ NewEvent.props.dy = a[3]
                         /\ NewEvent.props.dWidth = a[4]
                         /\ NewEvent.props.dHeight = a[5]
             /\ n = 9 => /\ recorded
                         /\ <<NewEvent.props.sx, NewEvent.props.sy,
                              NewEvent.props.sWidth, NewEvent.props.sHeight,
                              NewEvent.props.dx, NewEvent.props.dy,
                              NewEvent.props.dWidth, NewEvent.props.dHeight>>
                              = SubSeq(a, 2, 9)
             /\ n \in {4, 6, 7, 8} => (lastCall'.result # "ok" /\ UNCHANGED ctx)]_vars

====
